---------------------------- MODULE Spec2Model ----------------------------
(***************************************************************************)
(* AutoCoin: the Trader main loop, the API worker and the token-bucket     *)
(* rate limiter.                                                           *)
(*                                                                         *)
(* Time is counted in units of 10 ms (150 ms = 15).  Money is in KRW and   *)
(* coin volumes are whole coins; the values the exchange reports are drawn *)
(* from small sets chosen so that every division of the code is exact.     *)
(***************************************************************************)
EXTENDS Integers, Sequences, FiniteSets, TLC

(***************************************************************************)
(* Program constants                                                       *)
(***************************************************************************)
ORDER_INTERVAL == 15
PENDING_CHECK_INTERVAL == 30
PENDING_TIMEOUT_SEC == 1000
REFRESH_INTERVAL == 60000
MIN_ORDER_KRW == 5000
\* config.settings, in hundredths of a second like the other times
MIN_SYMBOL_STABLE_SEC == 60000
\* config.settings.BUY_SIGNAL_PARAMS
EMA_SLOW == 50
RSI_PERIOD == 14
DEFAULT_MAX_POSITION_KRW == 100000
MAX_TOTAL_POSITION_KRW == 500000
MAX_CONCURRENT_POSITIONS == 2
\* config.risk_config is not part of the sources; the values are the model's
DAILY_LOSS_LIMIT_KRW == 50000
MAX_COIN_RATIO_PCT == 50

SYMBOLS == {"KRW-BTC", "KRW-ETH"}

MAX_POSITION_KRW == [s \in SYMBOLS |-> IF s = "KRW-BTC" THEN 200000 ELSE 150000]

get_max_position_krw(sym) ==
    IF sym \in DOMAIN MAX_POSITION_KRW THEN MAX_POSITION_KRW[sym]
    ELSE DEFAULT_MAX_POSITION_KRW

\* take_profit_pct and stop_loss_pct of a symbol, in tenths of a percent
TAKE_PROFIT_PM(sym) ==
    IF sym = "KRW-BTC" THEN 3 ELSE IF sym = "KRW-ETH" THEN 4 ELSE 5

STOP_LOSS_PM(sym) ==
    IF sym = "KRW-BTC" THEN 8 ELSE 10

\* the order bucket: TokenBucket(8, 8)
CAPACITY == 8
REFILL_RATE == 8
\* rate_limit(timeout=30.0), in units of 25 ms
ACQUIRE_TIMEOUT == 1200
\* time.sleep(min(wait_time, 0.1)), in units of 25 ms
MAX_SLEEP == 4
\* bucket levels are counted in fifths of a token: REFILL_RATE tokens per
\* second are one fifth per 25 ms
TokenUnit == 5
\* one second in units of 25 ms
Second == 40

(***************************************************************************)
(* Bounds of the model                                                     *)
(***************************************************************************)
\* request ids (uuid4 values) the Trader may draw in one run
MaxReq == 8
\* wall-clock time that may pass after start-up
MaxElapsed == 1015
\* short delays are taken only this long after start-up or after a long one
MaxFine == 15
\* calls of the rate_limit wrapper in one run
MaxCalls == 20
\* how far the limiter's clock runs, in units of 25 ms
MaxTime == 60
\* faults of the response channel in one run
MaxFaults == 2
\* how far the clock of the directly called bucket runs, in units of 25 ms
MaxBucketTime == 45
\* order fills handed to the strategy object in one run
MaxTrades == 3
\* ticks of one symbol the ingress loop may take in one run
MaxTicks == 3
\* maxsize of a symbol's queue (2000 in main.py)
TickQueueSize == 2
\* maxsize of unified_tick_q (5000 in main.py)
UnifiedSize == 2
\* refresh intervals that may pass while maybe_refresh is called directly
MaxRefreshes == 3
\* symbol sets the main process may publish in one run
MaxPublish == 2

\* the markets the exchange lists
Universe == SYMBOLS \cup {"KRW-XRP"}
\* the symbol sets _select_symbols may return
Selections == {SYMBOLS, {"KRW-BTC", "KRW-XRP"}, {"KRW-XRP"}}
\* trade prices seen on ticks and fills
Prices == {1000, 1250}
\* balances the exchange may report
KrwValues == {0, 50000}
\* the tokens a call of acquire asks for
AcquireTokens == {1, 3}
\* the timeouts a call of acquire is given, in units of 25 ms
AcquireTimeouts == {2, ACQUIRE_TIMEOUT}
CoinValues == {0, 40}
\* how long the clock may jump between two steps
Delays == {ORDER_INTERVAL, PENDING_TIMEOUT_SEC}

\* the worker loops besides Trader and APIWorker: the ingress process with
\* its listener and client threads, the tick merger, the indicator worker
Workers == {"ingress", "listener", "client", "merger", "indicator"}

NoId == 0
NoPrice == 0
NoSym == "-"
Empty == [code |-> NoSym, type |-> "empty", trade_price |-> NoPrice, spread |-> "-"]

VARIABLES
    now,                \* time.time()
    stop_event,         \* the shared shutdown flag
    \* ---- Trader.run locals
    t_pc,               \* position in the main loop
    trading_paused,
    last_order_ts,
    krw_balance,
    coin_balances,
    last_prices,
    risk_managers,      \* key set of the RiskManager map
    symbols,            \* symbol_manager.symbols
    last_refresh,       \* symbol_manager._last_refresh
    pending_requests,
    pending_orders,
    next_id,            \* next fresh uuid4
    \* ---- StrategyManager
    strategies,
    active_positions,
    total_position_value,
    \* ---- channels
    order_q,
    resp_q,
    notify_q,           \* what the latest step put on the notify channel
    db_q,               \* what the latest step put on the db channel
    \* ---- APIWorker
    a_pc,
    \* ---- observation
    fills,              \* OrderFills dispatched by the latest step
    dropped,            \* request ids of the responses it left unapplied
    fill_count,         \* order id -> OrderFills dispatched so far
    done_seen,          \* order ids for which get_order has answered done
    applied,            \* request id -> responses applied so far
    order_sent,         \* times at which orders were put on order_q
    flag_sets,          \* calls of shutdown_ev.set() so far
    faults,             \* faults of the response channel so far
    \* ---- the main process and the other worker loops
    main_pc,
    w_pc,               \* worker -> "run" or "exit"
    late,               \* workers that began an iteration with the flag set
    \* ---- the order TokenBucket and a caller of the rate_limit wrapper
    tokens,             \* in fifths of a token
    last_refill,
    l_now,              \* time.time() in units of 25 ms
    l_pc,               \* the caller: "call", "wait" or "done"
    start_time,
    calls,              \* calls started so far
    admitted,           \* the times at which calls of the last second passed
    \* ---- one strategy object and the caller of its methods
    strat,
    strat_out,          \* the latest call: its input and what it returned
    \* ---- the caller of the StrategyManager's methods
    mgr_out,            \* the latest call: its input and what it returned
    upd_out,            \* the latest update_symbols: its input, the state before
    \* ---- a direct caller of RiskManager.allow_order
    risk_out,           \* the latest call: its input and what it returned
    \* ---- the tick path: ingress process, tick merger, consumers
    tick_queues,        \* symbol -> the symbol's queue
    unified_q,          \* unified_tick_q
    recv,               \* symbol -> ticks the ingress loop has taken so far
    i_pc,               \* the ingress loop: "get", "full" or "retry"
    i_item,             \* the item _safe_put holds
    m_idx,              \* the merger's place in tick_queues.items()
    delivered,          \* symbol -> the ticks put on unified_q so far
    seen,               \* reader of unified_q -> the ticks its get returned
    \* ---- a direct caller of SymbolManager.maybe_refresh
    ref_out,            \* the latest call: its input and what it returned
    \* ---- main: its SymbolManager and the broadcast of a new symbol set
    main_symbols,       \* symbol_manager._symbols of the main process
    symbols_event_q,
    symbols_updated_ev,
    p_pc,               \* the broadcast: "idle", or "set" after the put
    published,          \* the symbol sets put on symbols_event_q so far
    \* ---- the ingress process: its client threads and its listener thread
    clients,            \* the channels of the clients dict, in its order
    ws_client,          \* channel -> the channel's thread and its client
    current_symbols,
    ls_pc,              \* the listener: "wait", "clear", "drain", "apply"
    ls_idx,             \* the listener's place in clients.values()
    ls_len,             \* len(clients) when that iteration began
    \* ---- one TokenBucket and a direct caller of RateLimiter.acquire
    bucket,             \* its tokens, in fifths, and its last_refill
    b_now,              \* time.time() in units of 25 ms
    b_out,              \* the latest call: its input and what it returned
    \* ---- IndicatorWorker
    buyable_symbols,    \* the keys of the shared dict
    prev_buyable,       \* self._prev_buyable
    price_buffers,      \* market -> len of its buffer, up to the warm-up length
    last_eval,          \* market -> what _is_buy_signal returned last
    ind_out,            \* the latest iteration: its tick and what it did
    \* ---- a MACrossStrategy object
    mac,                \* the strategy: position, price deque, averages
    mac_out             \* the latest call, with the prices seen so far

workerVars == <<main_pc, w_pc, late>>

limiterVars == <<tokens, last_refill, l_now, l_pc, start_time, calls, admitted>>

strategyVars == <<strat, strat_out>>

managerVars == <<mgr_out, upd_out>>

riskVars == <<risk_out>>

tickVars == <<tick_queues, unified_q, recv, i_pc, i_item, m_idx, delivered,
              seen>>

symbolVars == <<ref_out>>

pubVars == <<main_symbols, symbols_event_q, symbols_updated_ev, p_pc,
             published>>

listenerVars == <<clients, ws_client, current_symbols, ls_pc, ls_idx, ls_len>>

bucketVars == <<bucket, b_now, b_out>>

indicatorVars == <<buyable_symbols, prev_buyable, price_buffers, last_eval,
                   ind_out>>

macrossVars == <<mac, mac_out>>

lateVars == <<macrossVars>>

sideVars == <<listenerVars, bucketVars, indicatorVars, lateVars>>

objVars == <<strategyVars, managerVars, riskVars, tickVars, symbolVars,
             pubVars, sideVars>>

vars == <<now, stop_event, t_pc, trading_paused, last_order_ts, krw_balance,
          coin_balances, last_prices, risk_managers, symbols, last_refresh,
          pending_requests, pending_orders, next_id, strategies,
          active_positions, total_position_value, order_q, resp_q, notify_q,
          db_q, a_pc, fills, dropped, fill_count, done_seen, applied, order_sent,
          flag_sets, faults, workerVars, limiterVars, objVars>>

traderVars == <<t_pc, trading_paused, last_order_ts, krw_balance,
          coin_balances, last_prices, risk_managers, symbols, last_refresh,
          pending_requests, pending_orders, next_id, strategies,
          active_positions, total_position_value>>

programVars == <<now, stop_event, traderVars, order_q, resp_q, notify_q, db_q,
                 a_pc, fills, dropped, fill_count, done_seen, applied, order_sent,
                 flag_sets, faults>>

(***************************************************************************)
(* Helpers                                                                 *)
(***************************************************************************)
Put(f, k, v) == [x \in DOMAIN f \cup {k} |-> IF x = k THEN v ELSE f[x]]
Del(f, k) == [x \in DOMAIN f \ {k} |-> f[x]]
Get(f, k, d) == IF k \in DOMAIN f THEN f[k] ELSE d
EmptyMap == [x \in {} |-> 0]
Max(a, b) == IF a >= b THEN a ELSE b
Min(a, b) == IF a <= b THEN a ELSE b

RECURSIVE SumOver(_, _)
SumOver(S, f) ==
    IF S = {} THEN 0
    ELSE LET x == CHOOSE y \in S : TRUE IN f[x] + SumOver(S \ {x}, f)

RECURSIVE SortedSeq(_)
SortedSeq(S) ==
    IF S = {} THEN <<>>
    ELSE LET m == CHOOSE y \in S : \A z \in S : y <= z
         IN <<m>> \o SortedSeq(S \ {m})

Count(seq, P(_)) == Cardinality({i \in 1..Len(seq) : P(seq[i])})

RECURSIVE SetToSeq(_)
SetToSeq(S) ==
    IF S = {} THEN <<>>
    ELSE LET x == CHOOSE y \in S : TRUE IN <<x>> \o SetToSeq(S \ {x})

(***************************************************************************)
(* Strategy: BaseStrategy position bookkeeping and ScalpingStrategy        *)
(***************************************************************************)
NoVol == -1
NoSignal == [action |-> "none", volume |-> NoVol, reason |-> "-"]
Signal(action, volume, reason) ==
    [action |-> action, volume |-> volume, reason |-> reason]

\* BaseStrategy.__init__ followed by prepare(); book is what the strategy
\* knows of best_bid and best_ask
NewStrategy ==
    [position_type |-> "none", entry_price |-> 0, volume |-> 0,
     unrealized_pnl |-> 0, realized_pnl |-> 0, total_trades |-> 0,
     winning_trades |-> 0, total_pnl |-> 0, is_initialized |-> TRUE,
     book |-> "none"]

\* ScalpingStrategy._should_exit_long
ShouldExitLong(sym, st, price) ==
    /\ st.entry_price > 0
    /\ \/ (price - st.entry_price) * 1000 >= TAKE_PROFIT_PM(sym) * st.entry_price
       \/ (price - st.entry_price) * 1000 <= -(STOP_LOSS_PM(sym) * st.entry_price)

\* ScalpingStrategy._process_tick; enter stands for _should_enter_long, which
\* depends on the price window only
ProcessTick(sym, st, tick, enter) ==
    IF tick.trade_price = NoPrice THEN NoSignal
    ELSE IF st.position_type = "none"
         THEN IF enter THEN Signal("buy", NoVol, "entry") ELSE NoSignal
         ELSE IF ShouldExitLong(sym, st, tick.trade_price)
              THEN Signal("sell", NoVol, "exit")
              ELSE NoSignal

\* ScalpingStrategy.on_tick: the signal
OnTickSignal(sym, st, tick, enter) ==
    IF tick.type = "orderbook" THEN NoSignal
    ELSE IF st.book # "narrow" THEN NoSignal
    ELSE IF ~st.is_initialized THEN NoSignal
    ELSE ProcessTick(sym, st, tick, enter)

\* BaseStrategy._update_unrealized_pnl
UpdateUnrealizedPnl(st, price) ==
    IF st.position_type = "long"
    THEN [st EXCEPT !.unrealized_pnl = (price - st.entry_price) * st.volume]
    ELSE st

\* ScalpingStrategy.on_tick: the strategy afterwards
OnTickState(st, tick) ==
    IF tick.type = "orderbook" THEN [st EXCEPT !.book = tick.spread]
    ELSE IF st.book # "narrow" \/ ~st.is_initialized THEN st
    ELSE UpdateUnrealizedPnl(st, tick.trade_price)

\* BaseStrategy._on_buy_fill
OnBuyFill(st, fill) ==
    [st EXCEPT !.position_type = "long", !.entry_price = fill.price,
               !.volume = fill.volume, !.unrealized_pnl = 0]

\* the pnl a sell fill realizes on a long position
SellPnl_FillVolume(st, fill) == (fill.price - st.entry_price) * fill.volume

SellPnl(st, fill) == (fill.price - st.entry_price) * st.volume

\* a sell fill that leaves the entry price and the volume in place
ClosePosition_KeepEntry(st) ==
    [st EXCEPT !.position_type = "none", !.unrealized_pnl = 0]

\* BaseStrategy._on_sell_fill: the position afterwards
ClosePosition(st) ==
    [st EXCEPT !.position_type = "none", !.entry_price = 0, !.volume = 0,
               !.unrealized_pnl = 0]

\* BaseStrategy._on_sell_fill
OnSellFill(st, fill) ==
    LET long == st.position_type = "long"
        pnl == IF long THEN SellPnl(st, fill) ELSE 0
    IN [ClosePosition(st) EXCEPT
           !.realized_pnl = st.realized_pnl + pnl,
           !.total_pnl = st.total_pnl + pnl,
           !.winning_trades = IF long /\ pnl > 0 THEN st.winning_trades + 1
                              ELSE st.winning_trades]

\* BaseStrategy.on_order_fill
OnOrderFill(st, fill) ==
    LET counted == [st EXCEPT !.total_trades = st.total_trades + 1]
    IN IF fill.side = "buy" THEN OnBuyFill(counted, fill)
       ELSE OnSellFill(counted, fill)

\* BaseStrategy.reset; best_bid and best_ask are not part of it
ResetStrategy(st) ==
    [st EXCEPT !.position_type = "none", !.entry_price = 0, !.volume = 0,
               !.unrealized_pnl = 0, !.realized_pnl = 0, !.total_trades = 0,
               !.winning_trades = 0, !.total_pnl = 0, !.is_initialized = FALSE]

\* BaseStrategy.prepare
PrepareStrategy(st) == [st EXCEPT !.is_initialized = TRUE]

(***************************************************************************)
(* TrailingStopMixin and AdvancedScalpingStrategy.  Percentages are in     *)
(* tenths of a percent, ratios in tenths, and trailing_stop_price is kept  *)
(* times 1000 so that highest_price * (1 - trailing_stop_pct / 100) is     *)
(* exact.                                                                  *)
(***************************************************************************)
TRAILING_STOP_PM == 10
TRAILING_ACTIVATION_PM == 5
PARTIAL_CLOSE_LEVELS == <<5, 10, 15>>
PARTIAL_CLOSE_RATIOS == <<3, 3, 4>>
ADV_TAKE_PROFIT_PM == 8
ADV_STOP_LOSS_PM == 12

\* TrailingStopMixin.__init__ with its keyword arguments
NewTracking(kw) ==
    [trailing_stop_enabled |-> kw.trailing_stop_enabled,
     partial_close_enabled |-> kw.partial_close_enabled,
     highest_price |-> 0, trailing_stop_price |-> 0, trailing_active |-> FALSE,
     partial_positions |-> <<>>, next_partial_level_idx |-> 0,
     remaining_volume |-> 0]

\* a strategy object of class cls ("scalping" or "advanced")
NewObject(cls, kw) == NewStrategy @@ NewTracking(kw) @@ [cls |-> cls]

\* get_strategy_config(symbol): the trailing-stop and partial-close keys of
\* a symbol of SYMBOL_SPECIFIC_CONFIG, percentages in tenths of a percent
\* and ratios in tenths
get_strategy_config(sym) ==
    IF sym = "KRW-BTC"
    THEN [trailing_stop_enabled |-> TRUE, trailing_stop_pct |-> 10,
          trailing_activation_pct |-> 5, partial_close_enabled |-> TRUE,
          partial_close_levels |-> <<5, 10, 15>>,
          partial_close_ratios |-> <<3, 3, 4>>]
    ELSE [trailing_stop_enabled |-> FALSE, trailing_stop_pct |-> 12,
          trailing_activation_pct |-> 6, partial_close_enabled |-> TRUE,
          partial_close_levels |-> <<4, 8, 12>>,
          partial_close_ratios |-> <<4, 3, 3>>]

\* TrailingStopMixin._setup_partial_positions: the slices
PartialPositions(total_volume) ==
    [i \in 1..Len(PARTIAL_CLOSE_RATIOS) |->
        [volume |-> (total_volume * PARTIAL_CLOSE_RATIOS[i]) \div 10,
         is_closed |-> FALSE]]

\* TrailingStopMixin.setup_position_tracking
SetupPositionTracking(st, entry_price, volume) ==
    LET t == [st EXCEPT !.highest_price = entry_price,
                        !.trailing_stop_price = 0,
                        !.trailing_active = FALSE,
                        !.remaining_volume = volume]
    IN IF st.partial_close_enabled
       THEN [t EXCEPT !.partial_positions = PartialPositions(volume),
                      !.next_partial_level_idx = 0]
       ELSE t

\* TrailingStopMixin.reset_position_tracking
ResetPositionTracking(st) ==
    [st EXCEPT !.highest_price = 0, !.trailing_stop_price = 0,
               !.trailing_active = FALSE, !.partial_positions = <<>>,
               !.next_partial_level_idx = 0, !.remaining_volume = 0]

\* entry_gain_pct >= pm / 10, compared without dividing
GainAtLeast(st, price, pm) ==
    (price - st.entry_price) * 1000 >= pm * st.entry_price

\* highest_price * (1 - trailing_stop_pct / 100), times 1000
StopFor(highest) == highest * (1000 - TRAILING_STOP_PM)

\* update_trailing_stop: the highest price after a tick
HighestPrice(old, price) == IF price > old THEN price ELSE old

\* the trailing stop after a tick: it only moves up
NextStop(old, new) == IF new > old THEN new ELSE old

\* a trailing sell for the volume that was entered
TrailingSell_Entered(st) == Signal("sell", st.volume, "trailing")

\* the sell signal of update_trailing_stop
TrailingSell(st) == Signal("sell", st.remaining_volume, "trailing")

\* the trigger check of update_trailing_stop
TrailingHit(st, price, stop) == price * 1000 <= stop

\* TrailingStopMixin.update_trailing_stop: the object afterwards and the
\* signal (NoSignal for None)
UpdateTrailingStop(st, price) ==
    IF ~st.trailing_stop_enabled \/ st.entry_price <= 0
    THEN [st |-> st, sig |-> NoSignal]
    ELSE LET highest == HighestPrice(st.highest_price, price)
             activate == ~st.trailing_active
                         /\ GainAtLeast(st, price, TRAILING_ACTIVATION_PM)
             active == st.trailing_active \/ activate
             stop0 == IF activate THEN StopFor(highest)
                      ELSE st.trailing_stop_price
             stop == IF active THEN NextStop(stop0, StopFor(highest)) ELSE stop0
             st1 == [st EXCEPT !.highest_price = highest,
                               !.trailing_active = active,
                               !.trailing_stop_price = stop]
         IN [st |-> st1,
             sig |-> IF active /\ TrailingHit(st, price, stop)
                     THEN TrailingSell(st)
                     ELSE NoSignal]

\* a partial close that does not move on to the next level
CloseSlice_Stay(st, i) ==
    [st EXCEPT !.partial_positions[i].is_closed = TRUE,
               !.remaining_volume = @ - st.partial_positions[i].volume]

\* a partial close that leaves remaining_volume as it was
CloseSlice_KeepRemaining(st, i) ==
    [st EXCEPT !.partial_positions[i].is_closed = TRUE,
               !.next_partial_level_idx = @ + 1]

\* check_partial_close: slice i is closed
CloseSlice(st, i) ==
    [st EXCEPT !.partial_positions[i].is_closed = TRUE,
               !.remaining_volume = @ - st.partial_positions[i].volume,
               !.next_partial_level_idx = @ + 1]

\* TrailingStopMixin.check_partial_close; a level without a slice raises
\* IndexError, which leaves the object as it is
CheckPartialClose(st, price) ==
    LET i == st.next_partial_level_idx + 1 IN
    IF ~st.partial_close_enabled \/ st.entry_price <= 0
    THEN [st |-> st, sig |-> NoSignal]
    ELSE IF st.next_partial_level_idx >= Len(PARTIAL_CLOSE_LEVELS)
    THEN [st |-> st, sig |-> NoSignal]
    ELSE IF ~GainAtLeast(st, price, PARTIAL_CLOSE_LEVELS[i])
    THEN [st |-> st, sig |-> NoSignal]
    ELSE IF i > Len(st.partial_positions)
    THEN [st |-> st, sig |-> Signal("error", NoVol, "IndexError")]
    ELSE IF st.partial_positions[i].is_closed
    THEN [st |-> st, sig |-> NoSignal]
    ELSE [st |-> CloseSlice(st, i),
          sig |-> Signal("sell", st.partial_positions[i].volume, "partial")]

\* AdvancedScalpingStrategy._should_exit_long: with a trailing stop or
\* partial close the take profit is 1.5 times and the stop loss 0.8 times
\* the configured one
AdvShouldExitLong(st, price) ==
    LET relaxed == st.trailing_stop_enabled \/ st.partial_close_enabled
        tp == IF relaxed THEN ADV_TAKE_PROFIT_PM * 15 ELSE ADV_TAKE_PROFIT_PM * 10
        sl == IF relaxed THEN ADV_STOP_LOSS_PM * 8 ELSE ADV_STOP_LOSS_PM * 10
    IN /\ st.entry_price > 0
       /\ \/ (price - st.entry_price) * 10000 >= tp * st.entry_price
          \/ (price - st.entry_price) * 10000 <= -(sl * st.entry_price)

\* AdvancedScalpingStrategy._process_tick
AdvProcessTick(st, tick, enter) ==
    LET price == tick.trade_price
        trail == UpdateTrailingStop(st, price)
        part == CheckPartialClose(trail.st, price)
    IN IF price = NoPrice THEN [st |-> st, sig |-> NoSignal]
       ELSE IF st.position_type = "none"
       THEN [st |-> st,
             sig |-> IF enter THEN Signal("buy", NoVol, "entry") ELSE NoSignal]
       ELSE IF trail.sig.action # "none" THEN trail
       ELSE IF part.sig.action # "none" THEN part
       ELSE [st |-> part.st,
             sig |-> IF AdvShouldExitLong(part.st, price)
                     THEN Signal("sell", part.st.remaining_volume, "exit")
                     ELSE NoSignal]

\* BaseStrategy.on_tick of an AdvancedScalpingStrategy
AdvOnTick(st, tick, enter) ==
    IF ~st.is_initialized THEN [st |-> st, sig |-> NoSignal]
    ELSE AdvProcessTick(UpdateUnrealizedPnl(st, tick.trade_price), tick, enter)

\* on_order_fill of an AdvancedScalpingStrategy, with _on_position_opened
\* and _on_position_closed
AdvOnOrderFill(st, fill) ==
    IF fill.side = "buy"
    THEN SetupPositionTracking(OnOrderFill(st, fill), fill.price, fill.volume)
    ELSE ResetPositionTracking(OnOrderFill(st, fill))

(***************************************************************************)
(* MACrossStrategy.  The averages are kept as exact fractions: fast_ma and *)
(* slow_ma hold the average times fast_period * slow_period.               *)
(***************************************************************************)
DEFAULT_FAST_PERIOD == 5
DEFAULT_SLOW_PERIOD == 20

\* sum(list(self.prices)[-k:])
SumLast(prices, k) == SumOver((Len(prices) - k + 1)..Len(prices), prices)

\* deque(maxlen=maxlen).append(x)
DequeAppend(q, x, maxlen) ==
    LET s == Append(q, x) IN IF Len(s) > maxlen THEN Tail(s) ELSE s

\* MACrossStrategy.__init__ followed by prepare() without historical data
NewMACross(fast, slow) ==
    NewStrategy @@ [fast_period |-> fast, slow_period |-> slow,
                    prices |-> <<>>, fast_ma |-> 0, slow_ma |-> 0,
                    prev_fast_ma |-> 0, prev_slow_ma |-> 0]

\* MACrossStrategy._calculate_moving_averages
calculate_moving_averages(st) ==
    [st EXCEPT
        !.fast_ma = IF Len(st.prices) >= st.fast_period
                    THEN SumLast(st.prices, st.fast_period) * st.slow_period
                    ELSE @,
        !.slow_ma = IF Len(st.prices) >= st.slow_period
                    THEN SumLast(st.prices, st.slow_period) * st.fast_period
                    ELSE @]

\* a cross test that looks at the averages after the tick only
is_golden_cross_NoPrev(st) == st.fast_ma > st.slow_ma

\* MACrossStrategy._is_golden_cross
is_golden_cross(st) ==
    /\ ~(st.prev_fast_ma = 0 \/ st.prev_slow_ma = 0)
    /\ st.prev_fast_ma <= st.prev_slow_ma
    /\ st.fast_ma > st.slow_ma

\* MACrossStrategy._is_death_cross
is_death_cross(st) ==
    /\ ~(st.prev_fast_ma = 0 \/ st.prev_slow_ma = 0)
    /\ st.prev_fast_ma >= st.prev_slow_ma
    /\ st.fast_ma < st.slow_ma

\* MACrossStrategy._should_exit_long, with take_profit_pct and stop_loss_pct
\* of the symbol's configuration
MAShouldExitLong(sym, st, price) ==
    /\ st.entry_price > 0
    /\ \/ ShouldExitLong(sym, st, price)
       \/ is_death_cross(st)

\* MACrossStrategy._process_tick
MAProcessTick(sym, st, tick) ==
    IF tick.trade_price = NoPrice THEN [st |-> st, sig |-> NoSignal]
    ELSE LET saved == [st EXCEPT !.prev_fast_ma = st.fast_ma,
                                 !.prev_slow_ma = st.slow_ma,
                                 !.prices = DequeAppend(st.prices,
                                     tick.trade_price,
                                     Max(st.fast_period, st.slow_period))]
             after == calculate_moving_averages(saved)
         IN [st |-> after,
             sig |-> IF Len(after.prices) < after.slow_period THEN NoSignal
                     ELSE IF after.position_type = "none"
                     THEN IF is_golden_cross(after)
                          THEN Signal("buy", NoVol, "golden_cross")
                          ELSE NoSignal
                     ELSE IF /\ after.position_type = "long"
                             /\ MAShouldExitLong(sym, after, tick.trade_price)
                     THEN Signal("sell", NoVol, "exit")
                     ELSE NoSignal]

\* BaseStrategy.on_tick of a MACrossStrategy
MAOnTick(sym, st, tick) ==
    IF ~st.is_initialized THEN [st |-> st, sig |-> NoSignal]
    ELSE MAProcessTick(sym, UpdateUnrealizedPnl(st, tick.trade_price), tick)

\* no method of the MACrossStrategy object has been called yet; seen counts
\* the prices of its ticks, hist holds the latest slow_period + 1 of them,
\* golden is the length of the example's prefix the prices are, or -1, and
\* quiet tells that no tick has given a signal yet
NoMACall == [op |-> "none", sig |-> NoSignal, seen |-> 0, hist |-> <<>>,
             golden |-> 0, quiet |-> TRUE]

\* a strategy built without keyword arguments
NoKeywords == [trailing_stop_enabled |-> FALSE, partial_close_enabled |-> FALSE]

\* StrategyManager._initialize_strategies for one symbol:
\* strategy_class(symbol, config) hands the configuration over as the second
\* positional argument and passes no keyword argument
InitializeStrategy(cls, sym, config) == NewObject(cls, NoKeywords)

NoFill == [symbol |-> NoSym, side |-> "-", price |-> NoPrice, volume |-> 0,
           order_id |-> NoId]

\* no method of the strategy object has been called yet; turn tells one
\* call from the next
NoCall == [op |-> "none", tick |-> Empty, fill |-> NoFill, sig |-> NoSignal,
           turn |-> 0, symbol |-> NoSym]

(***************************************************************************)
(* StrategyManager                                                         *)
(***************************************************************************)
\* the three checks without the one against MAX_TOTAL_POSITION_KRW
CanOpenWith_NoTotal(max_krw, ap, tpv) ==
    /\ ap < MAX_CONCURRENT_POSITIONS
    /\ max_krw > 0

\* StrategyManager._can_open_position, max_krw being what
\* get_max_position_krw(symbol) returned
CanOpenWith(max_krw, ap, tpv) ==
    /\ ap < MAX_CONCURRENT_POSITIONS
    /\ max_krw > 0
    /\ tpv + max_krw <= MAX_TOTAL_POSITION_KRW

CanOpenPosition(sym, ap, tpv) == CanOpenWith(get_max_position_krw(sym), ap, tpv)

\* {"action": "none", "reason": "포트폴리오 제한"}
PortfolioLimit == Signal("none", NoVol, "portfolio_limit")

\* the portfolio check of process_tick on the strategy's signal
Gate(sig, can_open) ==
    IF sig.action = "buy" /\ ~can_open THEN PortfolioLimit ELSE sig

\* StrategyManager.process_tick: the signal handed to the Trader
ManagerSignal(sym, strats, ap, tpv, tick, enter) ==
    IF sym \notin DOMAIN strats THEN NoSignal
    ELSE Gate(OnTickSignal(sym, strats[sym], tick, enter),
              CanOpenPosition(sym, ap, tpv))

ManagerTickState(sym, strats, tick) ==
    IF sym \notin DOMAIN strats THEN strats
    ELSE [strats EXCEPT ![sym] = OnTickState(strats[sym], tick)]

\* StrategyManager.process_order_fill with _update_portfolio_stats
ProcessOrderFill(sm, fill) ==
    IF fill.symbol \notin DOMAIN sm.strategies THEN sm
    ELSE [strategies |->
              [sm.strategies EXCEPT
                  ![fill.symbol] = OnOrderFill(sm.strategies[fill.symbol], fill)],
          active_positions |->
              IF fill.side = "buy" THEN sm.active_positions + 1
              ELSE Max(0, sm.active_positions - 1),
          total_position_value |->
              IF fill.side = "buy"
              THEN sm.total_position_value + fill.price * fill.volume
              ELSE Max(0, sm.total_position_value - fill.price * fill.volume)]

\* StrategyManager.update_symbols
UpdateSymbols(sm, new) ==
    LET cur == DOMAIN sm.strategies
        kept == {s \in cur : s \in new \/ sm.strategies[s].position_type # "none"}
        strats == [s \in kept \cup new |->
                      IF s \in cur THEN sm.strategies[s] ELSE NewStrategy]
    IN IF new = cur THEN sm
       ELSE [strategies |-> strats,
             active_positions |->
                 Cardinality({s \in DOMAIN strats :
                                 strats[s].position_type # "none"}),
             total_position_value |->
                 SumOver(DOMAIN strats,
                         [s \in DOMAIN strats |->
                             strats[s].entry_price * strats[s].volume])]

\* update_symbols has not been called yet
NoUpdate == [op |-> "none", new |-> {},
             before |-> [strategies |-> EmptyMap, active_positions |-> 0,
                         total_position_value |-> 0]]

\* no method of the StrategyManager has been called yet
NoManagerCall == [op |-> "none", sym |-> NoSym, raw |-> NoSignal,
                  sig |-> NoSignal, ap |-> 0, tpv |-> 0, max_krw |-> 0,
                  turn |-> 0]

(***************************************************************************)
(* RiskManager                                                             *)
(***************************************************************************)
\* allow_order without the check against a tenth of max_position_krw
allow_order_NoShare(max_position_krw, krw, coin_ratio, realized_daily_pnl, ap) ==
    /\ ~(realized_daily_pnl <= -DAILY_LOSS_LIMIT_KRW)
    /\ ~(coin_ratio >= MAX_COIN_RATIO_PCT)
    /\ ~(ap >= MAX_CONCURRENT_POSITIONS)
    /\ ~(krw < MIN_ORDER_KRW)

\* RiskManager(max_position_krw).allow_order(...); coin_ratio is in percent
\* and krw_balance < max_position_krw * 0.1 is compared in tenths
allow_order(max_position_krw, krw, coin_ratio, realized_daily_pnl, ap) ==
    /\ ~(realized_daily_pnl <= -DAILY_LOSS_LIMIT_KRW)
    /\ ~(coin_ratio >= MAX_COIN_RATIO_PCT)
    /\ ~(ap >= MAX_CONCURRENT_POSITIONS)
    /\ ~(krw < MIN_ORDER_KRW)
    /\ ~(krw * 10 < max_position_krw)

\* coin_ratio = total_coin_value / total_assets if total_assets > 0 else 0.0,
\* in whole percent: the floor does not change a comparison with a whole
\* number of percent
CoinRatio(coin_value, krw) ==
    IF coin_value + krw > 0 THEN (coin_value * 100) \div (coin_value + krw)
    ELSE 0

\* the Trader's call: the ratio computed, then allow_order
AllowOrder(max_position_krw, krw, coin_value, realized_daily_pnl, ap) ==
    allow_order(max_position_krw, krw, CoinRatio(coin_value, krw),
                realized_daily_pnl, ap)

\* no moment: before the first publication
NoTime == -1

\* maybe_refresh has not been called directly
NoRefresh == [op |-> "none", result |-> FALSE, fails |-> FALSE, sel |-> {},
              before |-> {}, at |-> NoTime, prev_pub |-> NoTime,
              last_pub |-> NoTime]

\* the processes main.py hands unified_tick_q to
Consumers == {"trader", "indicator"}

\* the IndicatorWorker has not taken a tick yet
NoIteration == [op |-> "none", market |-> NoSym, evaluated |-> FALSE,
                buyable |-> FALSE, first |-> FALSE, turn |-> 0]

\* no call of acquire yet
NoAcquire == [op |-> "none", tokens |-> 0, wait |-> FALSE, timeout |-> 0,
              at |-> 0, before |-> [tokens |-> 0, last_refill |-> 0],
              result |-> FALSE]

\* config.settings.WEBSOCKET_CHANNELS
WEBSOCKET_CHANNELS == {"ticker", "orderbook"}

\* self.wm of a client that holds no WebSocketManager
NoWm == {"-"}

\* a channel's thread before it has made its WebSocketClient
NoClient == [pc |-> "start", symbols |-> {}, wm |-> NoWm,
             is_connected |-> FALSE, arg |-> {}]

\* _safe_put holds no item
NoItem == [code |-> NoSym, seq |-> 0]

\* allow_order has not been called directly
NoRiskCall == [op |-> "none", max_position_krw |-> 0, krw_balance |-> 0,
               coin_ratio |-> 0, realized_daily_pnl |-> 0,
               active_positions |-> 0, result |-> FALSE]

(***************************************************************************)
(* Messages                                                                *)
(***************************************************************************)
NoResult == [state |-> "-", value |-> 0, volume |-> 0, remaining_volume |-> 0,
             trades_price |-> 0, trades_volume |-> 0]

Request(type, method, ticker, side, volume, uuid) ==
    [request_id |-> NoId, type |-> type, method |-> method, ticker |-> ticker,
     side |-> side, volume |-> volume, uuid |-> uuid]

Info(type, symbol, price, volume, reason, uuid) ==
    [type |-> type, symbol |-> symbol, price |-> price, volume |-> volume,
     reason |-> reason, uuid |-> uuid]

\* order_q.put(request) followed by pending_requests[request_id] = info, with
\* a fresh uuid4 as request_id; out is <<order_q, pending_requests, next_id>>
Emit(out, request, info) ==
    [q |-> Append(out.q, [request EXCEPT !.request_id = out.id]),
     pr |-> Put(out.pr, out.id, info),
     id |-> out.id + 1]

BalanceKrwQuery(out) ==
    Emit(out, Request("query", "get_balance", "KRW", "-", 0, NoId),
         Info("balance_krw", NoSym, 0, 0, "-", NoId))

BalanceCoinQuery(out, sym) ==
    Emit(out, Request("query", "get_balance", sym, "-", 0, NoId),
         Info("balance_coin", sym, 0, 0, "-", NoId))

\* _refresh_balances
RefreshBalances(out, sym) == BalanceCoinQuery(BalanceKrwQuery(out), sym)

RECURSIVE InitialCoinQueries(_, _)
InitialCoinQueries(out, syms) ==
    IF syms = <<>> THEN out
    ELSE InitialCoinQueries(BalanceCoinQuery(out, Head(syms)), Tail(syms))

\* the start of Trader.run, before the main loop
StartUp ==
    InitialCoinQueries(
        BalanceKrwQuery([q |-> <<>>, pr |-> EmptyMap, id |-> 1]),
        SetToSeq(SYMBOLS))

IsOrder(m) == m.type = "order"

\* order_sent after n more order submissions at time t: the time of the
\* latest submission and the smallest gap between two consecutive ones, as far
\* as it is below ORDER_INTERVAL
Sent(log, n, t) ==
    IF n = 0 THEN log
    ELSE [last |-> t,
          gap |-> IF n > 1 THEN 0
                  ELSE IF log.last = 0 THEN log.gap
                  ELSE Min(log.gap, t - log.last)]

NewOrders(q, out) == Count(out.q, IsOrder) - Count(q, IsOrder)

(***************************************************************************)
(* Initial state: Trader.run has run up to the main loop, the API worker   *)
(* is about to construct its client                                        *)
(***************************************************************************)
Init ==
    /\ now = REFRESH_INTERVAL
    /\ stop_event = FALSE
    /\ t_pc = "top"
    /\ trading_paused = FALSE
    /\ last_order_ts = 0
    /\ krw_balance = 0
    /\ coin_balances = [s \in SYMBOLS |-> 0]
    /\ last_prices = [s \in SYMBOLS |-> 0]
    /\ risk_managers = SYMBOLS
    /\ symbols = SYMBOLS
    /\ last_refresh = 0
    /\ pending_requests = StartUp.pr
    /\ pending_orders = EmptyMap
    /\ next_id = StartUp.id
    /\ strategies = [s \in SYMBOLS |-> NewStrategy]
    /\ active_positions = 0
    /\ total_position_value = 0
    /\ order_q = StartUp.q
    /\ resp_q = <<>>
    /\ notify_q = <<>>
    /\ db_q = <<>>
    /\ a_pc = "init"
    /\ fills = <<>>
    /\ dropped = <<>>
    /\ fill_count = EmptyMap
    /\ done_seen = {}
    /\ applied = EmptyMap
    /\ order_sent = [last |-> 0, gap |-> ORDER_INTERVAL]
    /\ flag_sets = 0
    /\ faults = 0
    /\ main_pc = "run"
    /\ w_pc = [w \in Workers |-> "run"]
    /\ late = {}
    /\ tokens = CAPACITY * TokenUnit
    /\ last_refill = 0
    /\ l_now = 0
    /\ l_pc = "call"
    /\ start_time = 0
    /\ calls = 0
    /\ admitted = <<>>
    /\ strat = NewObject("scalping", NoKeywords)
    /\ strat_out = NoCall
    /\ mgr_out = NoManagerCall
    /\ upd_out = NoUpdate
    /\ risk_out = NoRiskCall
    /\ tick_queues = [s \in SYMBOLS |-> <<>>]
    /\ unified_q = <<>>
    /\ recv = [s \in SYMBOLS |-> 0]
    /\ i_pc = "get"
    /\ i_item = NoItem
    /\ m_idx = 1
    /\ delivered = [s \in SYMBOLS |-> <<>>]
    /\ seen = [c \in Consumers |-> {}]
    /\ ref_out = NoRefresh
    /\ main_symbols = SYMBOLS
    /\ symbols_event_q = <<>>
    /\ symbols_updated_ev = FALSE
    /\ p_pc = "idle"
    /\ published = <<>>
    /\ clients = <<>>
    /\ ws_client = [ch \in WEBSOCKET_CHANNELS |-> NoClient]
    /\ current_symbols = SYMBOLS
    /\ ls_pc = "wait"
    /\ ls_idx = 0
    /\ ls_len = 0
    /\ bucket = [tokens |-> CAPACITY * TokenUnit, last_refill |-> 0]
    /\ b_now = 0
    /\ b_out = NoAcquire
    /\ buyable_symbols = {}
    /\ prev_buyable = EmptyMap
    /\ price_buffers = EmptyMap
    /\ last_eval = EmptyMap
    /\ ind_out = NoIteration
    /\ mac = NewMACross(DEFAULT_FAST_PERIOD, DEFAULT_SLOW_PERIOD)
    /\ mac_out = NoMACall

\* a loop that goes on whatever the flag says
LoopGuard_Ignore(flag) == TRUE

\* the head of every worker loop: while not shutdown_ev.is_set()
LoopGuard(flag) == ~flag

(***************************************************************************)
(* Time                                                                    *)
(***************************************************************************)
\* the clock is read by the Trader only
Advance(d) ==
    /\ t_pc # "exit"
    /\ now + d <= REFRESH_INTERVAL + MaxElapsed
    /\ d < PENDING_TIMEOUT_SEC => (now % PENDING_TIMEOUT_SEC) + d <= MaxFine
    /\ now' = now + d
    /\ notify_q' = <<>>
    /\ db_q' = <<>>
    /\ fills' = <<>>
    /\ dropped' = <<>>
    /\ UNCHANGED <<workerVars, limiterVars, faults, flag_sets, stop_event, traderVars, order_q, resp_q, a_pc, fill_count,
                   done_seen, applied, order_sent>>
    /\ UNCHANGED objVars

(***************************************************************************)
(* APIWorker (api_process)                                                 *)
(***************************************************************************)
OrderResults ==
    { [NoResult EXCEPT !.state = "wait"],
      [NoResult EXCEPT !.state = "done"],
      [NoResult EXCEPT !.state = "done", !.volume = 40, !.trades_price = 1250,
                       !.trades_volume = 40],
      [NoResult EXCEPT !.state = "cancel"] }

\* what the exchange client may do with a request: return a value of some
\* shape, raise UpbitAPIError, or raise another exception (the rate limiter's
\* "Rate limit exceeded" among them)
ApiOutcomes(req) ==
    IF req.type = "order"
    THEN { [kind |-> k, result |-> NoResult] :
              k \in {"uuid", "plain", "nondict", "upbit_error", "exception"} }
    ELSE IF req.method = "get_balance"
    THEN { [kind |-> "result", result |-> [NoResult EXCEPT !.value = v]] :
              v \in IF req.ticker = "KRW" THEN KrwValues ELSE CoinValues }
         \cup { [kind |-> "exception", result |-> NoResult] }
    ELSE IF req.method = "get_order"
    THEN { [kind |-> "result", result |-> r] : r \in OrderResults }
         \cup { [kind |-> k, result |-> NoResult] :
                   k \in {"upbit_error", "exception"} }
    ELSE { [kind |-> k, result |-> NoResult] :
              k \in {"result", "upbit_error", "exception"} }

\* the response api_process puts on resp_q
ApiResponse(req, outcome) ==
    IF outcome.kind \in {"upbit_error", "exception"}
    THEN [request_id |-> req.request_id, shape |-> "error", uuid |-> NoId,
          result |-> NoResult]
    ELSE IF req.type = "order"
    THEN IF outcome.kind = "nondict"
         THEN [request_id |-> NoId, shape |-> "nondict", uuid |-> NoId,
               result |-> NoResult]
         ELSE [request_id |-> req.request_id, shape |-> outcome.kind,
               uuid |-> IF outcome.kind = "uuid" THEN req.request_id ELSE NoId,
               result |-> NoResult]
    ELSE [request_id |-> req.request_id, shape |-> "result", uuid |-> NoId,
          result |-> outcome.result]

ApiNotes(outcome) ==
    IF outcome.kind = "upbit_error" THEN <<"API Error">>
    ELSE IF outcome.kind = "exception" THEN <<"API Unknown Error">>
    ELSE <<>>

ApiInit(ok) ==
    /\ a_pc = "init"
    /\ a_pc' = IF ok THEN "run" ELSE "exit"
    /\ stop_event' = IF ok THEN stop_event ELSE TRUE
    /\ flag_sets' = IF ok THEN flag_sets ELSE flag_sets + 1
    /\ notify_q' = IF ok THEN <<>> ELSE <<"API Init Error">>
    /\ db_q' = <<>>
    /\ fills' = <<>>
    /\ dropped' = <<>>
    /\ UNCHANGED <<workerVars, limiterVars, faults, now, traderVars, order_q, resp_q, fill_count, done_seen,
                   applied, order_sent>>
    /\ UNCHANGED objVars

ApiExit ==
    /\ a_pc = "run"
    /\ ~LoopGuard(stop_event)
    /\ a_pc' = "exit"
    /\ notify_q' = <<>>
    /\ db_q' = <<>>
    /\ fills' = <<>>
    /\ dropped' = <<>>
    /\ UNCHANGED <<workerVars, limiterVars, faults, flag_sets, now, stop_event, traderVars, order_q, resp_q, fill_count,
                   done_seen, applied, order_sent>>
    /\ UNCHANGED objVars

\* one pass of the loop that found a request; outcome is what the client did
ApiHandle(outcome) ==
    /\ a_pc = "run"
    /\ LoopGuard(stop_event)
    /\ order_q # <<>>
    /\ outcome \in ApiOutcomes(Head(order_q))
    /\ LET req == Head(order_q) IN
        /\ order_q' = Tail(order_q)
        /\ resp_q' = Append(resp_q, ApiResponse(req, outcome))
        /\ notify_q' = ApiNotes(outcome)
        /\ done_seen' = IF req.method = "get_order" /\ outcome.result.state = "done"
                        THEN done_seen \cup {req.uuid} ELSE done_seen
    /\ db_q' = <<>>
    /\ fills' = <<>>
    /\ dropped' = <<>>
    /\ UNCHANGED <<workerVars, limiterVars, faults, flag_sets, now, stop_event, traderVars, a_pc, fill_count, applied,
                   order_sent>>
    /\ UNCHANGED objVars

(***************************************************************************)
(* Trader.run: command handling                                            *)
(***************************************************************************)
Commands == {"portfolio_status", "strategy_performance", "pause", "resume",
             "shutdown"}

CommandNote(cmd) ==
    CASE cmd = "portfolio_status" -> <<"[PORTFOLIO]">>
      [] cmd = "strategy_performance" -> <<"[PERFORMANCE]">>
      [] cmd = "pause" -> <<"[INFO] Trading paused">>
      [] cmd = "resume" -> <<"[INFO] Trading resumed">>
      [] cmd = "shutdown" -> <<"[INFO] Shutdown signal received">>
      [] OTHER -> <<>>

\* while not stop_event.is_set(): fails
TraderExit ==
    /\ t_pc = "top"
    /\ ~LoopGuard(stop_event)
    /\ t_pc' = "exit"
    /\ notify_q' = <<>>
    /\ db_q' = <<>>
    /\ fills' = <<>>
    /\ dropped' = <<>>
    /\ UNCHANGED <<workerVars, limiterVars, faults, flag_sets, now, stop_event, trading_paused, last_order_ts, krw_balance,
                   coin_balances, last_prices, risk_managers, symbols,
                   last_refresh, pending_requests, pending_orders, next_id,
                   strategies, active_positions, total_position_value,
                   order_q, resp_q, a_pc, fill_count, done_seen, applied,
                   order_sent>>
    /\ UNCHANGED objVars

\* command_q.get_nowait() and the command it returned ("empty": queue.Empty)
TraderCommand(cmd) ==
    /\ t_pc = "top"
    /\ LoopGuard(stop_event)
    /\ t_pc' = "resp"
    /\ trading_paused' = IF cmd = "pause" THEN TRUE
                         ELSE IF cmd = "resume" THEN FALSE
                         ELSE trading_paused
    /\ stop_event' = IF cmd = "shutdown" THEN TRUE ELSE stop_event
    /\ flag_sets' = IF cmd = "shutdown" THEN flag_sets + 1 ELSE flag_sets
    /\ notify_q' = CommandNote(cmd)
    /\ db_q' = <<>>
    /\ fills' = <<>>
    /\ dropped' = <<>>
    /\ UNCHANGED <<workerVars, limiterVars, faults, now, last_order_ts, krw_balance, coin_balances, last_prices,
                   risk_managers, symbols, last_refresh, pending_requests,
                   pending_orders, next_id, strategies, active_positions,
                   total_position_value, order_q, resp_q, a_pc, fill_count,
                   done_seen, applied, order_sent>>
    /\ UNCHANGED objVars

(***************************************************************************)
(* Trader.run: API response handling                                       *)
(***************************************************************************)
\* response.get("result", 0.0) of a balance response
BalanceOf(r) == IF r.shape = "result" THEN r.result.value ELSE 0

\* the OrderFill built from an order_status result with state done
FillOf(uuid_val, po, data) ==
    [symbol |-> po.symbol,
     side |-> po.side,
     price |-> IF data.trades_volume > 0 THEN data.trades_price ELSE po.price,
     volume |-> IF data.volume # 0 THEN data.volume - data.remaining_volume
                ELSE po.volume,
     order_id |-> uuid_val]

\* the Trader's state as one record, for the handlers below
TraderState ==
    [krw_balance |-> krw_balance, coin_balances |-> coin_balances,
     pending_requests |-> pending_requests, pending_orders |-> pending_orders,
     sm |-> [strategies |-> strategies, active_positions |-> active_positions,
             total_position_value |-> total_position_value],
     order_q |-> order_q, next_id |-> next_id,
     notes |-> <<>>, db |-> <<>>, fills |-> <<>>, applied |-> {},
     dropped |-> <<>>]

NewPending(info, side) ==
    [symbol |-> info.symbol, side |-> side, volume |-> info.volume,
     price |-> info.price, sent_ts |-> now, last_check |-> 0]

\* every response to a submission registers an order
OnSubmission_Always(T, r, info, side) ==
    [T EXCEPT !.pending_orders = Put(T.pending_orders, r.uuid,
                                     NewPending(info, side)),
              !.notes = IF side = "buy" THEN <<"[BUY REQUEST]">>
                        ELSE <<"[SELL REQUEST]">>]

\* the branch for a response to a buy_order or sell_order request
OnSubmission(T, r, info, side) ==
    IF r.shape = "uuid"
    THEN [T EXCEPT !.pending_orders = Put(T.pending_orders, r.uuid,
                                          NewPending(info, side)),
                   !.notes = IF side = "buy" THEN <<"[BUY REQUEST]">>
                             ELSE <<"[SELL REQUEST]">>]
    ELSE [T EXCEPT !.notes = IF side = "buy" THEN <<"[BUY ERROR]">>
                             ELSE <<"[SELL ERROR]">>]

\* the record stays
Settle_Keep(pos, uid) == pos

\* pending_orders.pop(uuid_val, None)
Settle(pos, uid) == Del(pos, uid)

\* the branch for a response to an order_status request
OnOrderStatus(T, r, info) ==
    IF info.uuid \notin DOMAIN T.pending_orders THEN T
    ELSE LET po == T.pending_orders[info.uuid]
             data == IF r.shape = "result" THEN r.result ELSE NoResult
             fill == FillOf(info.uuid, po, data)
             out == RefreshBalances([q |-> T.order_q, pr |-> T.pending_requests,
                                     id |-> T.next_id], po.symbol)
         IN IF data.state = "done"
            THEN [T EXCEPT !.sm = ProcessOrderFill(T.sm, fill),
                           !.fills = <<fill>>,
                           !.notes = <<"[FILL]">>,
                           !.db = <<[side |-> po.side, symbol |-> po.symbol,
                                     price |-> fill.price,
                                     volume |-> fill.volume]>>,
                           !.order_q = out.q,
                           !.pending_requests = out.pr,
                           !.next_id = out.id,
                           !.pending_orders = Settle(T.pending_orders, info.uuid)]
            ELSE IF data.state \in {"cancel", "fail"}
            THEN [T EXCEPT !.notes = <<"[CANCEL]">>,
                           !.pending_orders = Settle(T.pending_orders, info.uuid)]
            ELSE T

\* the branch for a response to a cancel_order request
OnCancel(T, info) ==
    [T EXCEPT !.pending_orders = Settle(T.pending_orders, info.uuid),
              !.notes = <<"[CANCELLED]">>]

\* the oldest request still awaiting its response
Correlate_Oldest(T, r) ==
    IF DOMAIN T.pending_requests = {} THEN NoId
    ELSE CHOOSE id \in DOMAIN T.pending_requests :
             \A other \in DOMAIN T.pending_requests : id <= other

\* the request the response is correlated with: its id when the id is a key
\* of pending_requests
Correlate(T, r) ==
    IF r.request_id \in DOMAIN T.pending_requests THEN r.request_id ELSE NoId

\* the body of the response loop for one response
HandleResponse(T, r) ==
    IF r.shape = "nondict" THEN [T EXCEPT !.dropped = <<r.request_id>>]
    ELSE LET rid == Correlate(T, r) IN
         IF rid = NoId THEN [T EXCEPT !.dropped = <<r.request_id>>]
         ELSE LET info == T.pending_requests[rid]
                  T1 == [T EXCEPT !.pending_requests = Del(T.pending_requests, rid),
                                  !.applied = {rid}]
              IN CASE info.type = "balance_krw" ->
                        [T1 EXCEPT !.krw_balance = BalanceOf(r)]
                   [] info.type = "balance_coin" ->
                        [T1 EXCEPT !.coin_balances =
                            Put(T1.coin_balances, info.symbol, BalanceOf(r))]
                   [] info.type = "buy_order" -> OnSubmission(T1, r, info, "buy")
                   [] info.type = "sell_order" -> OnSubmission(T1, r, info, "sell")
                   [] info.type = "order_status" -> OnOrderStatus(T1, r, info)
                   [] info.type = "cancel_order" -> OnCancel(T1, info)
                   [] OTHER -> T1

Bump(f, S) == [x \in DOMAIN f \cup S |->
                  IF x \in S THEN Get(f, x, 0) + 1 ELSE f[x]]

TraderResponse ==
    /\ t_pc = "resp"
    /\ resp_q # <<>>
    /\ LET T == HandleResponse(TraderState, Head(resp_q)) IN
        /\ T.next_id - 1 <= MaxReq
        /\ resp_q' = Tail(resp_q)
        /\ krw_balance' = T.krw_balance
        /\ coin_balances' = T.coin_balances
        /\ pending_requests' = T.pending_requests
        /\ pending_orders' = T.pending_orders
        /\ strategies' = T.sm.strategies
        /\ active_positions' = T.sm.active_positions
        /\ total_position_value' = T.sm.total_position_value
        /\ order_q' = T.order_q
        /\ next_id' = T.next_id
        /\ notify_q' = T.notes
        /\ db_q' = T.db
        /\ fills' = T.fills
        /\ dropped' = T.dropped
        /\ fill_count' = Bump(fill_count, {T.fills[i].order_id : i \in 1..Len(T.fills)})
        /\ applied' = Bump(applied, T.applied)
    /\ UNCHANGED <<workerVars, limiterVars, faults, flag_sets, now, stop_event, t_pc, trading_paused, last_order_ts,
                   last_prices, risk_managers, symbols, last_refresh, a_pc,
                   done_seen, order_sent>>
    /\ UNCHANGED objVars

(***************************************************************************)
(* Trader.run: pending-order poll and timeout                              *)
(***************************************************************************)
StatusDue(po) == now - po.last_check >= PENDING_CHECK_INTERVAL

TimedOut(po) == now - po.sent_ts >= PENDING_TIMEOUT_SEC

StatusQuery(out, uid) ==
    Emit(out, Request("query", "get_order", "-", "-", 0, uid),
         Info("order_status", NoSym, 0, 0, "-", uid))

CancelQuery(out, uid) ==
    Emit(out, Request("query", "cancel_order", "-", "-", 0, uid),
         Info("cancel_order", NoSym, 0, 0, "-", uid))

\* the body of the loop over pending_orders for one order
PollOne(P, uid) ==
    LET po == P.pos[uid]
        out1 == IF StatusDue(po) THEN StatusQuery(P.out, uid) ELSE P.out
        pos1 == IF StatusDue(po)
                THEN [P.pos EXCEPT ![uid].last_check = now] ELSE P.pos
        out2 == IF TimedOut(po) THEN CancelQuery(out1, uid) ELSE out1
    IN [out |-> out2, pos |-> pos1]

RECURSIVE PollLoop(_, _)
PollLoop(P, uids) ==
    IF uids = <<>> THEN P
    ELSE PollLoop(PollOne(P, Head(uids)), Tail(uids))

\* resp_q.empty() ends the response loop; a paused Trader sleeps and goes on
\* with the next iteration, any other polls its pending orders
TraderPoll ==
    /\ t_pc = "resp"
    /\ resp_q = <<>>
    /\ LET P0 == [out |-> [q |-> order_q, pr |-> pending_requests,
                           id |-> next_id],
                  pos |-> pending_orders]
           P == IF trading_paused THEN P0
                ELSE PollLoop(P0, SortedSeq(DOMAIN pending_orders)) IN
        /\ P.out.id - 1 <= MaxReq
        /\ order_q' = P.out.q
        /\ pending_requests' = P.out.pr
        /\ next_id' = P.out.id
        /\ pending_orders' = P.pos
    /\ t_pc' = IF trading_paused THEN "top" ELSE "tick"
    /\ notify_q' = <<>>
    /\ db_q' = <<>>
    /\ fills' = <<>>
    /\ dropped' = <<>>
    /\ UNCHANGED <<workerVars, limiterVars, faults, flag_sets, now, stop_event, trading_paused, last_order_ts, krw_balance,
                   coin_balances, last_prices, risk_managers, symbols,
                   last_refresh, strategies, active_positions,
                   total_position_value, resp_q, a_pc, fill_count, done_seen,
                   applied, order_sent>>
    /\ UNCHANGED objVars

(***************************************************************************)
(* Trader.run: tick handling                                               *)
(***************************************************************************)
Ticks ==
    {Empty}
    \cup [code : Universe, type : {"ticker"}, trade_price : Prices, spread : {"-"}]
    \cup [code : Universe, type : {"orderbook"}, trade_price : {1000},
          spread : {"narrow", "wide"}]

\* time.time() - last_order_ts < Trader.ORDER_INTERVAL
RateLimited == now - last_order_ts < ORDER_INTERVAL

TotalCoinValue(lp) ==
    SumOver(symbols, [s \in symbols |-> coin_balances[s] * Get(lp, s, 0)])

RealizedDailyPnl ==
    SumOver(DOMAIN strategies, [s \in DOMAIN strategies |-> strategies[s].total_pnl])

BuyOrder(out, sym, price, vol_krw) ==
    Emit(out, Request("order", "place_order", sym, "buy", vol_krw, NoId),
         Info("buy_order", sym, price, vol_krw \div price, "signal", NoId))

SellOrder(out, sym, price, volume, reason) ==
    Emit(out, Request("order", "place_order", sym, "sell", volume, NoId),
         Info("sell_order", sym, price, volume, reason, NoId))

\* the buy branch; X is <<out, last_order_ts, pc>>
BuyBranch(X, sym, price) ==
    IF AllowOrder(get_max_position_krw(sym), krw_balance,
                  TotalCoinValue(Put(last_prices, sym, price)),
                  RealizedDailyPnl, active_positions)
    THEN LET vol_krw == Min(krw_balance, get_max_position_krw(sym)) IN
         IF vol_krw < MIN_ORDER_KRW THEN [X EXCEPT !.pc = "top"]
         ELSE [X EXCEPT !.out = BuyOrder(X.out, sym, price, vol_krw),
                        !.last_order_ts = now]
    ELSE X

\* the sell branch
SellBranch(X, sym, price, signal) ==
    LET coin_balance == Get(coin_balances, sym, 0)
        sell_volume == IF signal.volume # NoVol THEN signal.volume
                       ELSE coin_balance
    IN IF sell_volume > 0
       THEN [X EXCEPT !.out = SellOrder(X.out, sym, price, sell_volume, "signal"),
                      !.last_order_ts = now]
       ELSE X

\* from the signal to the end of the try block
OnSignal(X, sym, price, signal) ==
    IF signal.action = "none" THEN [X EXCEPT !.pc = "top"]
    ELSE IF RateLimited THEN [X EXCEPT !.pc = "top"]
    ELSE IF price = NoPrice THEN [X EXCEPT !.pc = "top"]
    ELSE IF signal.action = "buy" THEN BuyBranch(X, sym, price)
    ELSE SellBranch(X, sym, price, signal)

\* market_q.get(timeout=1) returned tick, or raised queue.Empty
TraderTick(tick, enter) ==
    /\ t_pc = "tick"
    /\ LET sym == tick.code
           active == tick # Empty /\ sym \in symbols
           signal == ManagerSignal(sym, strategies, active_positions,
                                   total_position_value, tick, enter)
           X0 == [out |-> [q |-> order_q, pr |-> pending_requests, id |-> next_id],
                  last_order_ts |-> last_order_ts, pc |-> "refresh"]
           X == IF active THEN OnSignal(X0, sym, tick.trade_price, signal)
                ELSE [X0 EXCEPT !.pc = "top"]
       IN
        /\ X.out.id - 1 <= MaxReq
        /\ last_prices' = IF active /\ tick.trade_price # NoPrice
                          THEN Put(last_prices, sym, tick.trade_price)
                          ELSE last_prices
        /\ strategies' = IF active THEN ManagerTickState(sym, strategies, tick)
                         ELSE strategies
        /\ order_q' = X.out.q
        /\ pending_requests' = X.out.pr
        /\ next_id' = X.out.id
        /\ last_order_ts' = X.last_order_ts
        /\ order_sent' = Sent(order_sent, NewOrders(order_q, X.out), now)
        /\ t_pc' = X.pc
    /\ notify_q' = <<>>
    /\ db_q' = <<>>
    /\ fills' = <<>>
    /\ dropped' = <<>>
    /\ UNCHANGED <<workerVars, limiterVars, faults, flag_sets, now, stop_event, trading_paused, krw_balance, coin_balances,
                   risk_managers, symbols, last_refresh, pending_orders,
                   active_positions, total_position_value, resp_q, a_pc,
                   fill_count, done_seen, applied>>
    /\ UNCHANGED objVars

(***************************************************************************)
(* Trader.run: symbol refresh and Trader.rebind_symbols                    *)
(***************************************************************************)
\* a removed symbol is sold whatever its balance
RemoveSymbol_SellAlways(R, sym) ==
    LET vol == Get(R.cb, sym, 0)
        sold == [R EXCEPT !.out = SellOrder(R.out, sym, Get(R.lp, sym, 0),
                                            vol, "symbol_removed"),
                          !.notes = Append(R.notes, "[AUTO SELL]")]
    IN [sold EXCEPT !.rm = R.rm \ {sym}, !.cb = Del(R.cb, sym),
                    !.lp = Del(R.lp, sym)]

\* the loop body for one removed symbol
RemoveSymbol(R, sym) ==
    LET vol == Get(R.cb, sym, 0)
        sold == IF vol > 0
                THEN [R EXCEPT !.out = SellOrder(R.out, sym, Get(R.lp, sym, 0),
                                                 vol, "symbol_removed"),
                               !.notes = Append(R.notes, "[AUTO SELL]")]
                ELSE R
    IN [sold EXCEPT !.rm = R.rm \ {sym}, !.cb = Del(R.cb, sym),
                    !.lp = Del(R.lp, sym)]

\* the loop body for one added symbol
AddSymbol(R, sym) ==
    [R EXCEPT !.rm = R.rm \cup {sym},
              !.cb = Put(R.cb, sym, Get(R.cb, sym, 0)),
              !.lp = Put(R.lp, sym, Get(R.lp, sym, 0)),
              !.out = BalanceCoinQuery(R.out, sym)]

RECURSIVE RemoveLoop(_, _)
RemoveLoop(R, syms) ==
    IF syms = <<>> THEN R
    ELSE RemoveLoop(RemoveSymbol(R, Head(syms)), Tail(syms))

RECURSIVE AddLoop(_, _)
AddLoop(R, syms) ==
    IF syms = <<>> THEN R
    ELSE AddLoop(AddSymbol(R, Head(syms)), Tail(syms))

\* Trader.rebind_symbols
Rebind(R, new) ==
    LET removed == R.rm \ new
        added == new \ R.rm
        R1 == AddLoop(RemoveLoop(R, SetToSeq(removed)), SetToSeq(added))
    IN [R1 EXCEPT !.sm = UpdateSymbols(R.sm, new),
                  !.notes = Append(R1.notes, "[SYMBOLS]")]

\* a manager that attempts a selection on every call
RefreshDue_Always == TRUE

\* SymbolManager.maybe_refresh: is a selection attempted now
RefreshDue == ~(now - last_refresh < REFRESH_INTERVAL)

\* symbol_manager.maybe_refresh() and, when it returns True, rebind_symbols;
\* fails: _select_symbols raised, sel: the symbols it returned
TraderRefresh(fails, sel) ==
    /\ t_pc = "refresh"
    /\ LET changed == RefreshDue /\ ~fails /\ sel # symbols
           R0 == [rm |-> risk_managers, cb |-> coin_balances, lp |-> last_prices,
                  out |-> [q |-> order_q, pr |-> pending_requests, id |-> next_id],
                  sm |-> [strategies |-> strategies,
                          active_positions |-> active_positions,
                          total_position_value |-> total_position_value],
                  notes |-> <<>>]
           R == IF changed THEN Rebind(R0, sel) ELSE R0
       IN
        /\ R.out.id - 1 <= MaxReq
        /\ last_refresh' = IF RefreshDue THEN now ELSE last_refresh
        /\ symbols' = IF changed THEN sel ELSE symbols
        /\ risk_managers' = R.rm
        /\ coin_balances' = R.cb
        /\ last_prices' = R.lp
        /\ order_q' = R.out.q
        /\ pending_requests' = R.out.pr
        /\ next_id' = R.out.id
        /\ strategies' = R.sm.strategies
        /\ active_positions' = R.sm.active_positions
        /\ total_position_value' = R.sm.total_position_value
        /\ notify_q' = R.notes
        /\ order_sent' = Sent(order_sent, NewOrders(order_q, R.out), now)
    /\ t_pc' = "top"
    /\ db_q' = <<>>
    /\ fills' = <<>>
    /\ dropped' = <<>>
    /\ UNCHANGED <<workerVars, limiterVars, faults, flag_sets, now, stop_event, trading_paused, last_order_ts, krw_balance,
                   pending_orders, resp_q, a_pc, fill_count, done_seen, applied>>
    /\ UNCHANGED objVars

(***************************************************************************)
(* The main process and the worker loops that only watch the flag          *)
(***************************************************************************)
\* main: KeyboardInterrupt, then shutdown_ev.set()
MainInterrupt ==
    /\ main_pc = "run"
    /\ main_pc' = "stopping"
    /\ stop_event' = TRUE
    /\ flag_sets' = flag_sets + 1
    /\ notify_q' = <<>>
    /\ db_q' = <<>>
    /\ fills' = <<>>
    /\ dropped' = <<>>
    /\ UNCHANGED <<now, traderVars, order_q, resp_q, a_pc, fill_count,
                   done_seen, applied, order_sent, faults, w_pc, late,
                   limiterVars>>
    /\ UNCHANGED objVars

\* one pass through the loop of worker w: the head, and the body when the
\* head lets it in
WorkerStep(w) ==
    /\ w_pc[w] = "run"
    /\ w_pc' = IF LoopGuard(stop_event) THEN w_pc
               ELSE [w_pc EXCEPT ![w] = "exit"]
    /\ late' = IF LoopGuard(stop_event) /\ stop_event THEN late \cup {w}
               ELSE late
    /\ notify_q' = <<>>
    /\ db_q' = <<>>
    /\ fills' = <<>>
    /\ dropped' = <<>>
    /\ UNCHANGED <<now, stop_event, traderVars, order_q, resp_q, a_pc,
                   fill_count, done_seen, applied, order_sent, flag_sets,
                   faults, main_pc, limiterVars>>
    /\ UNCHANGED objVars

(***************************************************************************)
(* TokenBucket and the rate_limit wrapper, for the order bucket            *)
(***************************************************************************)
\* one token, in fifths
Cost == 1 * TokenUnit

\* the bucket is refilled without regard to its capacity
Refilled_NoCap(tok, time_passed) ==
    tok + (time_passed * REFILL_RATE * TokenUnit) \div Second

\* min(capacity, tokens + time_passed * refill_rate)
Refilled(tok, time_passed) ==
    Min(CAPACITY * TokenUnit,
        tok + (time_passed * REFILL_RATE * TokenUnit) \div Second)

\* (tokens - self.tokens) / self.refill_rate
WaitTime(tok) == ((Cost - tok) * Second) \div (REFILL_RATE * TokenUnit)

\* the admissions of the last second, after one more at time t
Admit(log, t) == SelectSeq(Append(log, t), LAMBDA x : x > t - Second)

\* the wrapper is entered: wait_for_token takes start_time
LimiterCall ==
    /\ l_pc = "call"
    /\ calls < MaxCalls
    /\ calls' = calls + 1
    /\ start_time' = l_now
    /\ l_pc' = "wait"
    /\ UNCHANGED <<programVars, workerVars, tokens, last_refill, l_now, admitted>>
    /\ UNCHANGED objVars

\* one pass of the loop of wait_for_token; the sleep lasts over more longer
\* than asked
LimiterTry(over) ==
    /\ l_pc = "wait"
    /\ l_now + MAX_SLEEP + over <= MaxTime
    /\ LET tok == Refilled(tokens, l_now - last_refill) IN
       IF ~(l_now - start_time < ACQUIRE_TIMEOUT)
       THEN /\ l_pc' = "call"
            /\ UNCHANGED <<tokens, last_refill, l_now, admitted>>
       ELSE IF tok >= Cost
       THEN /\ tokens' = tok - Cost
            /\ last_refill' = l_now
            /\ admitted' = Admit(admitted, l_now)
            /\ l_pc' = "call"
            /\ UNCHANGED l_now
       ELSE /\ tokens' = tok
            /\ last_refill' = l_now
            /\ l_now' = l_now + Min(WaitTime(tok), MAX_SLEEP) + over
            /\ UNCHANGED <<l_pc, admitted>>
    /\ UNCHANGED <<programVars, workerVars, start_time, calls>>
    /\ UNCHANGED objVars

\* the wrapped call takes d
LimiterDelay(d) ==
    /\ l_pc = "call"
    /\ calls > 0
    /\ l_now + d + MAX_SLEEP + 1 <= MaxTime
    /\ l_now' = l_now + d
    /\ UNCHANGED <<programVars, workerVars, tokens, last_refill, l_pc,
                   start_time, calls, admitted>>
    /\ UNCHANGED objVars

(***************************************************************************)
(* A response channel that does not keep the order of the responses, hands *)
(* some over twice, or hands over one that answers no request              *)
(***************************************************************************)
StrayResponse ==
    [request_id |-> MaxReq + 1, shape |-> "result", uuid |-> NoId,
     result |-> [NoResult EXCEPT !.state = "done"]]

ChannelStep(q) ==
    /\ faults < MaxFaults
    /\ faults' = faults + 1
    /\ resp_q' = q
    /\ notify_q' = <<>>
    /\ db_q' = <<>>
    /\ fills' = <<>>
    /\ dropped' = <<>>
    /\ UNCHANGED <<now, stop_event, traderVars, order_q, a_pc, fill_count,
                   done_seen, applied, order_sent, flag_sets, workerVars,
                   limiterVars>>
    /\ UNCHANGED objVars

\* the response at position i is handed over first
Overtake(i) ==
    /\ i \in 2..Len(resp_q)
    /\ ChannelStep(<<resp_q[i]>> \o SubSeq(resp_q, 1, i - 1)
                      \o SubSeq(resp_q, i + 1, Len(resp_q)))

\* the response at position i is handed over twice
Duplicate(i) ==
    /\ i \in 1..Len(resp_q)
    /\ \A k \in 1..Len(resp_q) : resp_q[k] = resp_q[i] => k = i
    /\ ChannelStep(SubSeq(resp_q, 1, i) \o SubSeq(resp_q, i, Len(resp_q)))

\* a response is handed over that answers no request of the Trader
Stray ==
    /\ \A k \in 1..Len(resp_q) : resp_q[k] # StrayResponse
    /\ ChannelStep(Append(resp_q, StrayResponse))

(***************************************************************************)
(* One strategy object driven through its public methods: on_tick,         *)
(* on_order_fill, reset and prepare                                        *)
(***************************************************************************)
\* trade prices around an entry at 1000: -0.5%, 0, 0.4%, 0.6%, 1.0%, 1.5%
ObjPrices == {995, 1000, 1004, 1006, 1010, 1015}

ObjTicks ==
    { [code |-> "KRW-BTC", type |-> "ticker", trade_price |-> p, spread |-> "-"] :
        p \in ObjPrices \cup {NoPrice} }
    \cup {[code |-> "KRW-BTC", type |-> "orderbook", trade_price |-> 1000,
           spread |-> "narrow"]}

ObjFills ==
    [symbol : {"KRW-BTC"}, side : {"buy", "sell"}, price : {1000, 1010},
     volume : {10, 20}, order_id : {NoId}]

Keywords == [trailing_stop_enabled : BOOLEAN, partial_close_enabled : BOOLEAN]

\* the other variables, which the strategy object does not touch
StrategyFrame ==
    UNCHANGED <<programVars, workerVars, limiterVars, managerVars, riskVars,
                tickVars, symbolVars, pubVars, sideVars>>

\* strategy_class(symbol, config), followed by prepare()
StrategyCreate(cls, kw) ==
    /\ strat_out.op = "none"
    /\ strat' = NewObject(cls, kw)
    /\ strat_out' = [NoCall EXCEPT !.op = "create"]
    /\ StrategyFrame

\* StrategyManager("advanced_scalping"): the strategy it makes for sym
StrategyInitialize(sym) ==
    /\ strat_out.op = "none"
    /\ strat' = InitializeStrategy("advanced", sym, get_strategy_config(sym))
    /\ strat_out' = [NoCall EXCEPT !.op = "initialize", !.symbol = sym]
    /\ StrategyFrame

\* strategy.on_tick(tick)
StrategyTick(tick, enter) ==
    /\ strat_out.op # "none"
    /\ LET r == IF strat.cls = "advanced" THEN AdvOnTick(strat, tick, enter)
                ELSE [st |-> OnTickState(strat, tick),
                      sig |-> OnTickSignal("KRW-BTC", strat, tick, enter)]
       IN /\ strat' = r.st
          /\ strat_out' = [op |-> "tick", tick |-> tick, fill |-> NoFill,
                           sig |-> r.sig, turn |-> 1 - strat_out.turn,
                           symbol |-> strat_out.symbol]
    /\ StrategyFrame

\* strategy.on_order_fill(fill)
StrategyFill(fill) ==
    /\ strat_out.op # "none"
    /\ strat.total_trades < MaxTrades
    /\ strat' = IF strat.cls = "advanced" THEN AdvOnOrderFill(strat, fill)
                ELSE OnOrderFill(strat, fill)
    /\ strat_out' = [op |-> "fill", tick |-> Empty, fill |-> fill,
                     sig |-> NoSignal, turn |-> 1 - strat_out.turn,
                     symbol |-> strat_out.symbol]
    /\ StrategyFrame

\* strategy.reset()
StrategyReset ==
    /\ strat_out.op # "none"
    /\ strat.is_initialized
    /\ strat' = ResetStrategy(strat)
    /\ strat_out' = [NoCall EXCEPT !.op = "reset"]
    /\ StrategyFrame

\* strategy.prepare()
StrategyPrepare ==
    /\ ~strat.is_initialized
    /\ strat' = PrepareStrategy(strat)
    /\ strat_out' = [NoCall EXCEPT !.op = "prepare"]
    /\ StrategyFrame

NextStrategy ==
    \/ \E cls \in {"scalping", "advanced"}, kw \in Keywords :
          StrategyCreate(cls, kw)
    \/ \E sym \in SYMBOLS : StrategyInitialize(sym)
    \/ \E tick \in ObjTicks, enter \in BOOLEAN : StrategyTick(tick, enter)
    \/ \E fill \in ObjFills : StrategyFill(fill)
    \/ StrategyReset
    \/ StrategyPrepare

SpecStrategy == Init /\ [][NextStrategy]_vars

(***************************************************************************)
(* The StrategyManager as an object: process_tick and process_order_fill   *)
(* called in any order, under any configured per-symbol maximum            *)
(***************************************************************************)
\* values of MAX_POSITION_KRW[symbol] a configuration may hold
ConfiguredMax == {0, 150000, 200000}

ManagerTicks ==
    { [code |-> c, type |-> "ticker", trade_price |-> 1000, spread |-> "-"] :
        c \in SYMBOLS }
    \cup { [code |-> c, type |-> "orderbook", trade_price |-> 1000,
            spread |-> "narrow"] : c \in SYMBOLS }

ManagerFills ==
    [symbol : SYMBOLS, side : {"buy", "sell"}, price : {1000},
     volume : {10, 300, 310}, order_id : {NoId}]

\* the other variables, which these calls do not touch
ManagerFrame ==
    UNCHANGED <<now, stop_event, t_pc, trading_paused, last_order_ts,
                krw_balance, coin_balances, last_prices, risk_managers,
                symbols, last_refresh, pending_requests, pending_orders,
                next_id, order_q, resp_q, notify_q, db_q, a_pc, fills, dropped,
                fill_count, done_seen, applied, order_sent, flag_sets, faults,
                workerVars, limiterVars, strategyVars, riskVars, tickVars,
                symbolVars, pubVars, sideVars>>

\* strategy_manager.process_tick(symbol, tick)
ManagerTick(tick, enter, max_krw) ==
    /\ LET sym == tick.code
           raw == OnTickSignal(sym, strategies[sym], tick, enter)
       IN /\ strategies' = ManagerTickState(sym, strategies, tick)
          /\ mgr_out' = [op |-> "tick", sym |-> sym, raw |-> raw,
                         sig |-> Gate(raw, CanOpenWith(max_krw, active_positions,
                                                       total_position_value)),
                         ap |-> active_positions, tpv |-> total_position_value,
                         max_krw |-> max_krw, turn |-> 1 - mgr_out.turn]
    /\ UNCHANGED <<active_positions, total_position_value, upd_out>>
    /\ ManagerFrame

\* strategy_manager.process_order_fill(symbol, fill)
ManagerFill(fill) ==
    /\ SumOver(DOMAIN strategies,
               [c \in DOMAIN strategies |-> strategies[c].total_trades])
           < MaxTrades
    /\ LET sm == ProcessOrderFill([strategies |-> strategies,
                                   active_positions |-> active_positions,
                                   total_position_value |-> total_position_value],
                                  fill)
       IN /\ strategies' = sm.strategies
          /\ active_positions' = sm.active_positions
          /\ total_position_value' = sm.total_position_value
    /\ mgr_out' = [NoManagerCall EXCEPT !.op = "fill", !.sym = fill.symbol,
                                        !.turn = 1 - mgr_out.turn]
    /\ UNCHANGED upd_out
    /\ ManagerFrame

\* strategy_manager.update_symbols(new)
ManagerUpdate(new) ==
    /\ LET before == [strategies |-> strategies,
                      active_positions |-> active_positions,
                      total_position_value |-> total_position_value]
           sm == UpdateSymbols(before, new)
       IN /\ strategies' = sm.strategies
          /\ active_positions' = sm.active_positions
          /\ total_position_value' = sm.total_position_value
          /\ upd_out' = [op |-> "update", new |-> new, before |-> before]
    /\ mgr_out' = [NoManagerCall EXCEPT !.op = "update",
                                        !.turn = 1 - mgr_out.turn]
    /\ ManagerFrame

NextManager ==
    \/ \E tick \in ManagerTicks, enter \in BOOLEAN, max_krw \in ConfiguredMax :
          ManagerTick(tick, enter, max_krw)
    \/ \E fill \in ManagerFills : ManagerFill(fill)

SpecManager == Init /\ [][NextManager]_vars

\* fills and changes of the symbol set
NextUpdate ==
    \/ \E fill \in ManagerFills : ManagerFill(fill)
    \/ \E new \in Selections : ManagerUpdate(new)

SpecUpdate == Init /\ [][NextUpdate]_vars

(***************************************************************************)
(* The RiskManager as an object: allow_order called with any inputs        *)
(***************************************************************************)
RiskInputs ==
    [max_position_krw : {10000, 200000},
     krw_balance : {4000, 4999, 5000, 19999, 20000},
     coin_ratio : {0, MAX_COIN_RATIO_PCT - 1, MAX_COIN_RATIO_PCT},
     realized_daily_pnl : {0, 1 - DAILY_LOSS_LIMIT_KRW, -DAILY_LOSS_LIMIT_KRW},
     active_positions : {0, MAX_CONCURRENT_POSITIONS - 1,
                         MAX_CONCURRENT_POSITIONS}]

\* RiskManager(in.max_position_krw).allow_order(...), called before the
\* workers have taken a step
RiskAllow(in) ==
    /\ t_pc = "top"
    /\ a_pc = "init"
    /\ now = REFRESH_INTERVAL
    /\ risk_out' = [op |-> "allow",
                    max_position_krw |-> in.max_position_krw,
                    krw_balance |-> in.krw_balance,
                    coin_ratio |-> in.coin_ratio,
                    realized_daily_pnl |-> in.realized_daily_pnl,
                    active_positions |-> in.active_positions,
                    result |-> allow_order(in.max_position_krw, in.krw_balance,
                                           in.coin_ratio, in.realized_daily_pnl,
                                           in.active_positions)]
    /\ UNCHANGED <<programVars, workerVars, limiterVars, strategyVars,
                   managerVars, tickVars, symbolVars, pubVars, sideVars>>

(***************************************************************************)
(* The tick path: websocket_process, _tick_merger_process and the readers  *)
(* of unified_tick_q                                                       *)
(***************************************************************************)
\* tick_queues.items() in the order of insertion
SymbolOrder == SetToSeq(SYMBOLS)

\* queue.get_nowait() that returns the newest item
GetNowait_Newest(q) == [item |-> q[Len(q)], rest |-> SubSeq(q, 1, Len(q) - 1)]

\* queue.get_nowait() on a queue that holds an item
GetNowait(q) == [item |-> Head(q), rest |-> Tail(q)]

\* a unified_queue.put_nowait that makes room by discarding the oldest item
MergerPut_DropOldest(uq, item) ==
    IF Len(uq) < UnifiedSize THEN Append(uq, item)
    ELSE Append(Tail(uq), item)

\* unified_queue.put_nowait(tick_data) inside try / except Exception: continue
MergerPut(uq, item) ==
    IF Len(uq) < UnifiedSize THEN Append(uq, item) ELSE uq

TickFrame ==
    UNCHANGED <<programVars, workerVars, limiterVars, strategyVars,
                managerVars, riskVars, symbolVars, pubVars, sideVars>>

\* websocket_process: ws_queue.get returned a tick of sym; _safe_put up to
\* the outcome of its first put_nowait
IngressReceive(sym) ==
    /\ i_pc = "get"
    /\ LoopGuard(stop_event)
    /\ recv[sym] < MaxTicks
    /\ recv' = [recv EXCEPT ![sym] = @ + 1]
    /\ LET item == [code |-> sym, seq |-> recv[sym] + 1] IN
        IF Len(tick_queues[sym]) < TickQueueSize
        THEN /\ tick_queues' = [tick_queues EXCEPT ![sym] = Append(@, item)]
             /\ UNCHANGED <<i_pc, i_item>>
        ELSE /\ i_pc' = "full"
             /\ i_item' = item
             /\ UNCHANGED tick_queues
    /\ UNCHANGED <<unified_q, m_idx, delivered, seen>>
    /\ TickFrame

\* _safe_put: q.get_nowait() after the queue was found full; when the merger
\* has emptied the queue meanwhile, the exception ends _safe_put
IngressDropOldest ==
    /\ i_pc = "full"
    /\ LET q == tick_queues[i_item.code] IN
        IF q = <<>>
        THEN /\ i_pc' = "get"
             /\ i_item' = NoItem
             /\ UNCHANGED tick_queues
        ELSE /\ tick_queues' = [tick_queues EXCEPT ![i_item.code] = GetNowait(q).rest]
             /\ i_pc' = "retry"
             /\ UNCHANGED i_item
    /\ UNCHANGED <<unified_q, recv, m_idx, delivered, seen>>
    /\ TickFrame

\* _safe_put: the second q.put_nowait(item)
IngressRetry ==
    /\ i_pc = "retry"
    /\ tick_queues' =
          [tick_queues EXCEPT ![i_item.code] =
              IF Len(@) < TickQueueSize THEN Append(@, i_item) ELSE @]
    /\ i_pc' = "get"
    /\ i_item' = NoItem
    /\ UNCHANGED <<unified_q, recv, m_idx, delivered, seen>>
    /\ TickFrame

\* _tick_merger_process: one round of the for loop, for the symbol at m_idx
MergerStep ==
    /\ LoopGuard(stop_event)
    /\ LET sym == SymbolOrder[m_idx]
           q == tick_queues[sym]
       IN IF q = <<>>
          THEN UNCHANGED <<tick_queues, unified_q, delivered>>
          ELSE LET got == GetNowait(q)
                   uq == MergerPut(unified_q, got.item)
               IN /\ tick_queues' = [tick_queues EXCEPT ![sym] = got.rest]
                  /\ unified_q' = uq
                  /\ delivered' =
                        IF uq # unified_q
                        THEN [delivered EXCEPT ![sym] = Append(@, got.item.seq)]
                        ELSE delivered
    /\ m_idx' = IF m_idx = Len(SymbolOrder) THEN 1 ELSE m_idx + 1
    /\ UNCHANGED <<recv, i_pc, i_item, seen>>
    /\ TickFrame

\* market_q.get(timeout=1) of the Trader, tick_q.get(timeout=0.5) of the
\* IndicatorWorker: both on the one unified_tick_q
UnifiedGet(c) ==
    /\ LoopGuard(stop_event)
    /\ unified_q # <<>>
    /\ unified_q' = Tail(unified_q)
    /\ seen' = [seen EXCEPT ![c] = @ \cup {Head(unified_q)}]
    /\ UNCHANGED <<tick_queues, recv, i_pc, i_item, m_idx, delivered>>
    /\ TickFrame

NextTicks ==
    \/ \E sym \in SYMBOLS : IngressReceive(sym)
    \/ IngressDropOldest
    \/ IngressRetry
    \/ MergerStep
    \/ \E c \in Consumers : UnifiedGet(c)

SpecTicks == Init /\ [][NextTicks]_vars

(***************************************************************************)
(* The SymbolManager as an object: maybe_refresh called at any time        *)
(***************************************************************************)
SymbolFrame ==
    UNCHANGED <<stop_event, t_pc, trading_paused, last_order_ts, krw_balance,
                coin_balances, last_prices, risk_managers, pending_requests,
                pending_orders, next_id, strategies, active_positions,
                total_position_value, order_q, resp_q, notify_q, db_q, a_pc,
                fills, dropped, fill_count, done_seen, applied, order_sent,
                flag_sets, faults, workerVars, limiterVars, strategyVars,
                managerVars, riskVars, tickVars, pubVars, sideVars>>

\* time passes between two calls
SymbolClock(d) ==
    /\ now + d <= REFRESH_INTERVAL * (1 + MaxRefreshes)
    /\ now' = now + d
    /\ UNCHANGED <<symbols, last_refresh, ref_out>>
    /\ SymbolFrame

\* symbol_manager.maybe_refresh(); fails: _select_symbols raised, sel: the
\* symbols it returned
SymbolRefresh(fails, sel) ==
    /\ LET changed == RefreshDue /\ ~fails /\ sel # symbols IN
        /\ last_refresh' = IF RefreshDue THEN now ELSE last_refresh
        /\ symbols' = IF changed THEN sel ELSE symbols
        /\ ref_out' = [op |-> "refresh", result |-> changed, fails |-> fails,
                       sel |-> sel, before |-> symbols, at |-> now,
                       prev_pub |-> ref_out.last_pub,
                       last_pub |-> IF changed THEN now ELSE ref_out.last_pub]
    /\ UNCHANGED now
    /\ SymbolFrame

NextSymbols ==
    \/ \E d \in {REFRESH_INTERVAL \div 2, REFRESH_INTERVAL} : SymbolClock(d)
    \/ \E fails \in BOOLEAN, sel \in Selections : SymbolRefresh(fails, sel)

SpecSymbols == Init /\ [][NextSymbols]_vars

(***************************************************************************)
(* main: the symbol refresh of the main process and its broadcast to the   *)
(* ingress process; the time between two refreshes is left open            *)
(***************************************************************************)
PubFrame ==
    UNCHANGED <<programVars, workerVars, limiterVars, strategyVars,
                managerVars, riskVars, symbolVars, sideVars>>

\* the queues of the symbols in new: those there are kept, the others made
QueuesFor(queues, new) ==
    [s \in new |-> IF s \in DOMAIN queues THEN queues[s] ELSE <<>>]

\* main: symbol_manager.maybe_refresh() returned True with sel selected; the
\* queues are made and removed and the new list is put on symbols_event_q
MainPut(sel) ==
    /\ p_pc = "idle"
    /\ LoopGuard(stop_event)
    /\ Len(published) < MaxPublish
    /\ sel # main_symbols
    /\ main_symbols' = sel
    /\ IF sel # DOMAIN tick_queues
       THEN /\ tick_queues' = QueuesFor(tick_queues, sel)
            /\ symbols_event_q' = Append(symbols_event_q, sel)
            /\ published' = Append(published, sel)
            /\ p_pc' = "set"
       ELSE UNCHANGED <<tick_queues, symbols_event_q, published, p_pc>>
    /\ UNCHANGED <<symbols_updated_ev, unified_q, recv, i_pc, i_item, m_idx,
                   delivered, seen>>
    /\ PubFrame

\* main: symbols_updated_ev.set()
MainSet ==
    /\ p_pc = "set"
    /\ symbols_updated_ev' = TRUE
    /\ p_pc' = "idle"
    /\ UNCHANGED <<main_symbols, symbols_event_q, published, tickVars>>
    /\ PubFrame

\* the two SymbolManagers: that of main, which publishes to the ingress
\* process, and that of the Trader
NextWriters ==
    \/ \E sel \in Selections : MainPut(sel)
    \/ MainSet
    \/ \E d \in {REFRESH_INTERVAL} : SymbolClock(d)
    \/ \E fails \in BOOLEAN, sel \in Selections : SymbolRefresh(fails, sel)

SpecWriters == Init /\ [][NextWriters]_vars

(***************************************************************************)
(* The ingress process: one client thread per channel and the listener     *)
(* thread that applies the symbol sets main broadcasts.  The threads of    *)
(* the process interleave between statements.  wm is the symbol set the    *)
(* client's WebSocketManager subscribes to, NoWm when the client holds no  *)
(* open manager.                                                           *)
(***************************************************************************)
ListenerFrame ==
    UNCHANGED <<programVars, workerVars, limiterVars, strategyVars,
                managerVars, riskVars, symbolVars, tickVars, bucketVars,
                indicatorVars, lateVars>>

\* _client_thread: the client is made with the symbols the process was
\* started with and stored in clients
ClientRegister(ch) ==
    /\ ws_client[ch].pc = "start"
    /\ ws_client' = [ws_client EXCEPT ![ch] =
           [NoClient EXCEPT !.pc = "loop", !.symbols = SYMBOLS]]
    /\ clients' = Append(clients, ch)
    /\ UNCHANGED <<current_symbols, ls_pc, ls_idx, ls_len, pubVars>>
    /\ ListenerFrame

\* run_with_reconnect finds the client unconnected and calls connect, which
\* closes the manager it holds and makes one for self.symbols
ClientConnectBegin(ch) ==
    /\ ws_client[ch].pc = "loop"
    /\ LoopGuard(stop_event)
    /\ ~ws_client[ch].is_connected
    /\ ws_client' = [ws_client EXCEPT ![ch].pc = "connect",
                                      ![ch].wm = NoWm,
                                      ![ch].arg = ws_client[ch].symbols]
    /\ UNCHANGED <<clients, current_symbols, ls_pc, ls_idx, ls_len, pubVars>>
    /\ ListenerFrame

\* connect stores the manager it made and sets is_connected, or fails
ClientConnectEnd(ch, ok) ==
    /\ ws_client[ch].pc = "connect"
    /\ ws_client' = [ws_client EXCEPT
           ![ch].pc = "loop",
           ![ch].wm = IF ok THEN ws_client[ch].arg ELSE @,
           ![ch].is_connected = ok]
    /\ UNCHANGED <<clients, current_symbols, ls_pc, ls_idx, ls_len, pubVars>>
    /\ ListenerFrame

\* the heartbeat times out, or get_data fails
ClientLost(ch) ==
    /\ ws_client[ch].pc = "loop"
    /\ LoopGuard(stop_event)
    /\ ws_client[ch].is_connected
    /\ ws_client' = [ws_client EXCEPT ![ch].is_connected = FALSE]
    /\ UNCHANGED <<clients, current_symbols, ls_pc, ls_idx, ls_len, pubVars>>
    /\ ListenerFrame

\* WebSocketClient.update_symbols
update_symbols(c, syms) ==
    IF syms = c.symbols THEN c
    ELSE [c EXCEPT !.symbols = syms, !.is_connected = FALSE, !.wm = NoWm]

\* _listener: symbols_updated_ev.wait returns True
ListenerWait ==
    /\ ls_pc = "wait"
    /\ LoopGuard(stop_event)
    /\ symbols_updated_ev
    /\ ls_pc' = "clear"
    /\ UNCHANGED <<clients, ws_client, current_symbols, ls_idx, ls_len,
                   pubVars>>
    /\ ListenerFrame

\* _listener: symbols_updated_ev.clear()
ListenerClear ==
    /\ ls_pc = "clear"
    /\ symbols_updated_ev' = FALSE
    /\ ls_pc' = "drain"
    /\ UNCHANGED <<clients, ws_client, current_symbols, ls_idx, ls_len,
                   main_symbols, symbols_event_q, p_pc, published>>
    /\ ListenerFrame

\* _listener: the queue is emptied and its last item compared with
\* current_symbols; a different set becomes current_symbols and the
\* iteration over clients.values() begins
ListenerDrain ==
    /\ ls_pc = "drain"
    /\ symbols_event_q' = <<>>
    /\ IF symbols_event_q = <<>>
          \/ symbols_event_q[Len(symbols_event_q)] = current_symbols
       THEN /\ ls_pc' = "wait"
            /\ UNCHANGED <<current_symbols, ls_idx, ls_len>>
       ELSE /\ current_symbols' = symbols_event_q[Len(symbols_event_q)]
            /\ ls_pc' = "apply"
            /\ ls_idx' = 1
            /\ ls_len' = Len(clients)
    /\ UNCHANGED <<clients, ws_client, main_symbols, symbols_updated_ev,
                   p_pc, published>>
    /\ ListenerFrame

\* _listener: one step of for cl in clients.values(): the iteration raises
\* when the dict has grown since it began, which ends the thread
ListenerNext ==
    /\ ls_pc = "apply"
    /\ IF Len(clients) # ls_len
       THEN /\ ls_pc' = "dead"
            /\ UNCHANGED <<ws_client, ls_idx>>
       ELSE IF ls_idx > ls_len
       THEN /\ ls_pc' = "wait"
            /\ UNCHANGED <<ws_client, ls_idx>>
       ELSE /\ ws_client' = [ws_client EXCEPT ![clients[ls_idx]] =
                                update_symbols(@, current_symbols)]
            /\ ls_idx' = ls_idx + 1
            /\ UNCHANGED ls_pc
    /\ UNCHANGED <<clients, current_symbols, ls_len, pubVars>>
    /\ ListenerFrame

NextReconf ==
    \/ \E sel \in Selections : MainPut(sel)
    \/ MainSet
    \/ \E ch \in WEBSOCKET_CHANNELS : ClientRegister(ch)
    \/ \E ch \in WEBSOCKET_CHANNELS : ClientConnectBegin(ch)
    \/ \E ch \in WEBSOCKET_CHANNELS, ok \in BOOLEAN : ClientConnectEnd(ch, ok)
    \/ \E ch \in WEBSOCKET_CHANNELS : ClientLost(ch)
    \/ ListenerWait
    \/ ListenerClear
    \/ ListenerDrain
    \/ ListenerNext

SpecReconf == Init /\ [][NextReconf]_vars

(***************************************************************************)
(* One TokenBucket under direct calls of RateLimiter.acquire by one        *)
(* caller.  time.time() does not go back.                                  *)
(***************************************************************************)
\* TokenBucket.consume(k) at time t: the refill, then the k tokens are taken
\* when there are as many
consume(b, t, k) ==
    LET filled == Refilled(b.tokens, t - b.last_refill) IN
    [ok |-> filled >= k * TokenUnit,
     bucket |-> [tokens |-> IF filled >= k * TokenUnit
                            THEN filled - k * TokenUnit ELSE filled,
                 last_refill |-> t]]

\* wait_time = (tokens - self.tokens) / self.refill_rate
wait_time(tok, k) ==
    ((k * TokenUnit - tok) * Second) \div (REFILL_RATE * TokenUnit)

\* TokenBucket.wait_for_token(k, timeout) entered at time start, at time t of
\* its loop; every sleep lasts over longer than asked
RECURSIVE wait_for_token(_, _, _, _, _, _)
wait_for_token(b, t, start, k, timeout, over) ==
    IF ~(t - start < timeout)
    THEN [result |-> FALSE, bucket |-> b, now |-> t]
    ELSE LET c == consume(b, t, k) IN
         IF c.ok THEN [result |-> TRUE, bucket |-> c.bucket, now |-> t]
         ELSE wait_for_token(c.bucket,
                  t + Min(wait_time(c.bucket.tokens, k), MAX_SLEEP) + over,
                  start, k, timeout, over)

\* RateLimiter.acquire(tokens=k, wait, timeout)
acquire(b, t, k, wait, timeout, over) ==
    IF wait THEN wait_for_token(b, t, t, k, timeout, over)
    ELSE LET c == consume(b, t, k) IN
         [result |-> c.ok, bucket |-> c.bucket, now |-> t]

BucketFrame ==
    UNCHANGED <<programVars, workerVars, limiterVars, strategyVars,
                managerVars, riskVars, symbolVars, tickVars, pubVars,
                listenerVars, indicatorVars, lateVars>>

\* a call of acquire, from its entry to its return
BucketAcquire(k, wait, timeout, over) ==
    LET r == acquire(bucket, b_now, k, wait, timeout, over) IN
    /\ r.now <= MaxBucketTime
    /\ bucket' = r.bucket
    /\ b_now' = r.now
    /\ b_out' = [op |-> "acquire", tokens |-> k, wait |-> wait,
                 timeout |-> timeout, at |-> b_now, before |-> bucket,
                 result |-> r.result]
    /\ BucketFrame

\* time passes between two calls
BucketElapse(d) ==
    /\ b_now + d <= MaxBucketTime
    /\ b_now' = b_now + d
    /\ UNCHANGED <<bucket, b_out>>
    /\ BucketFrame

NextAcquire ==
    \/ \E k \in AcquireTokens, wait \in BOOLEAN, timeout \in AcquireTimeouts,
          over \in {0, 1} : BucketAcquire(k, wait, timeout, over)
    \/ \E d \in {Second \div REFILL_RATE, Second} : BucketElapse(d)

SpecAcquire == Init /\ [][NextAcquire]_vars

(***************************************************************************)
(* IndicatorWorker.run.  What _is_buy_signal returns for the buffered      *)
(* prices, or that it raises, is an input of the iteration.                *)
(***************************************************************************)
\* max(self.ema_slow, self.rsi_period) + 5
WarmUp == Max(EMA_SLOW, RSI_PERIOD) + 5

\* the ticks the worker may take: none within the timeout, one without a
\* price, one with a price
IndicatorTicks ==
    {Empty} \cup [code : SYMBOLS, type : {"ticker"},
                  trade_price : {NoPrice, 1000}, spread : {"-"}]

\* the key is set on every evaluation that is buyable and never removed
WriteBuyable_NeverRemove(keys, market, buyable) ==
    IF buyable THEN keys \cup {market} ELSE keys

\* self.buyable_symbols[market] = True, or self.buyable_symbols.pop(market)
WriteBuyable(keys, market, buyable) ==
    IF buyable THEN keys \cup {market} ELSE keys \ {market}

IndicatorFrame ==
    UNCHANGED <<programVars, workerVars, limiterVars, strategyVars,
                managerVars, riskVars, symbolVars, tickVars, pubVars,
                listenerVars, bucketVars, lateVars>>

\* one iteration of the loop: tick_q.get(timeout=0.5) returned tick or timed
\* out; buyable is what _is_buy_signal returns, raises that it raises
IndicatorTick(tick, buyable, raises) ==
    /\ LoopGuard(stop_event)
    /\ LET market == tick.code
           taken == tick # Empty /\ tick.trade_price # NoPrice
           len == IF taken THEN Min(Get(price_buffers, market, 0) + 1, WarmUp)
                  ELSE 0
           evaluated == taken /\ ~(len < WarmUp) /\ ~raises
           first == market \notin DOMAIN prev_buyable
           changed == evaluated /\ (first \/ prev_buyable[market] # buyable)
       IN /\ price_buffers' = IF taken THEN Put(price_buffers, market, len)
                              ELSE price_buffers
          /\ buyable_symbols' = IF changed
                                THEN WriteBuyable(buyable_symbols, market, buyable)
                                ELSE buyable_symbols
          /\ prev_buyable' = IF changed THEN Put(prev_buyable, market, buyable)
                             ELSE prev_buyable
          /\ last_eval' = IF evaluated THEN Put(last_eval, market, buyable)
                          ELSE last_eval
          /\ ind_out' = [op |-> "tick", market |-> market,
                         evaluated |-> evaluated,
                         buyable |-> evaluated /\ buyable,
                         first |-> evaluated /\ first,
                         turn |-> 1 - ind_out.turn]
    /\ IndicatorFrame

\* the worker is the one process that writes the dict: main hands it to the
\* worker and to its SymbolManager, which reads the keys
NextIndicator ==
    \E tick \in IndicatorTicks, buyable \in BOOLEAN, raises \in BOOLEAN :
        IndicatorTick(tick, buyable, raises)

SpecIndicator == Init /\ [][NextIndicator]_vars

(***************************************************************************)
(* The system                                                              *)
(***************************************************************************)
AllOutcomes ==
    [kind : {"uuid", "plain", "nondict", "upbit_error", "exception"},
     result : {NoResult}]
    \cup { [kind |-> "result", result |-> r] :
             r \in OrderResults \cup {NoResult}
                   \cup { [NoResult EXCEPT !.value = v] :
                            v \in KrwValues \cup CoinValues } }

\* the program in an environment E: the delays, commands, ticks, entry
\* decisions, symbol selections and exchange answers that may occur
NextIn(E) ==
    \/ \E d \in E.delays : Advance(d)
    \/ \E ok \in E.inits : ApiInit(ok)
    \/ ApiExit
    \/ \E outcome \in E.outcomes : ApiHandle(outcome)
    \/ TraderExit
    \/ \E cmd \in E.cmds : TraderCommand(cmd)
    \/ TraderResponse
    \/ TraderPoll
    \/ \E tick \in E.ticks, enter \in E.enters : TraderTick(tick, enter)
    \/ \E fails \in E.fails, sel \in E.sels : TraderRefresh(fails, sel)

EnvAll ==
    [delays |-> Delays, inits |-> BOOLEAN, outcomes |-> AllOutcomes,
     cmds |-> Commands \cup {"empty"}, ticks |-> Ticks, enters |-> BOOLEAN,
     fails |-> BOOLEAN, sels |-> Selections]

NextWorkers ==
    \/ MainInterrupt
    \/ \E w \in Workers : WorkerStep(w)

NextLimiter ==
    \/ LimiterCall
    \/ \E over \in {0, 1} : LimiterTry(over)
    \/ \E d \in {Second} : LimiterDelay(d)

Next == NextIn(EnvAll) \/ NextWorkers \/ NextLimiter

Spec == Init /\ [][Next]_vars

\* the limiter alone
SpecBucket == Init /\ [][NextLimiter]_vars

(***************************************************************************)
(* Environments                                                            *)
(***************************************************************************)
BtcTicks == {t \in Ticks : t.code \in {NoSym, "KRW-BTC"} /\ t.spread # "wide"
                             /\ t.trade_price # 1250}

Answer(kind, state, value) ==
    [kind |-> kind, result |-> [NoResult EXCEPT !.state = state, !.value = value]]

\* one order and its life as a pending order
EnvPending ==
    [delays |-> Delays, inits |-> {TRUE},
     outcomes |-> {Answer("result", "-", 50000), Answer("result", "-", 0),
                   Answer("uuid", "-", 0), Answer("result", "wait", 0),
                   Answer("result", "done", 0)},
     cmds |-> {"empty", "pause", "shutdown"}, ticks |-> BtcTicks,
     enters |-> {TRUE}, fails |-> {TRUE}, sels |-> {SYMBOLS}]

SpecPending == Init /\ [][NextIn(EnvPending)]_vars

\* orders from ticks and a change of the symbol set
EnvRebind ==
    [delays |-> {ORDER_INTERVAL}, inits |-> {TRUE},
     outcomes |-> {Answer("result", "-", 50000), Answer("result", "-", 0),
                   Answer("result", "-", 40), Answer("uuid", "-", 0)},
     cmds |-> {"empty", "shutdown"}, ticks |-> BtcTicks,
     enters |-> {TRUE}, fails |-> BOOLEAN,
     sels |-> {{"KRW-XRP"}, {"KRW-BTC", "KRW-XRP"}}]

SpecRebind == Init /\ [][NextIn(EnvRebind)]_vars

\* every way a call of the exchange client can end
EnvErrors ==
    [delays |-> {ORDER_INTERVAL}, inits |-> BOOLEAN,
     outcomes |-> {o \in AllOutcomes :
                      /\ o.result.value \in {0, 50000}
                      /\ o.result.volume = 0},
     cmds |-> {"empty", "shutdown"}, ticks |-> BtcTicks,
     enters |-> {TRUE}, fails |-> {TRUE}, sels |-> {SYMBOLS}]

SpecErrors == Init /\ [][NextIn(EnvErrors)]_vars

\* an order that is pending when the flag is set, and every worker loop
EnvShutdown ==
    [delays |-> {PENDING_TIMEOUT_SEC}, inits |-> BOOLEAN,
     outcomes |-> {Answer("result", "-", 50000), Answer("result", "-", 0),
                   Answer("uuid", "-", 0), Answer("result", "wait", 0)},
     cmds |-> {"empty", "shutdown"}, ticks |-> BtcTicks,
     enters |-> {TRUE}, fails |-> {TRUE}, sels |-> {SYMBOLS}]

SpecShutdown == Init /\ [][NextIn(EnvShutdown) \/ NextWorkers]_vars

\* the program behind a faulty response channel
EnvChannel ==
    [delays |-> {ORDER_INTERVAL}, inits |-> {TRUE},
     outcomes |-> {Answer("result", "-", 50000), Answer("result", "-", 0),
                   Answer("uuid", "-", 0), Answer("nondict", "-", 0),
                   Answer("result", "done", 0)},
     cmds |-> {"empty", "shutdown"}, ticks |-> BtcTicks,
     enters |-> {TRUE}, fails |-> {TRUE}, sels |-> {SYMBOLS}]

NextChannel ==
    \/ \E i \in 1..MaxReq : Overtake(i)
    \/ \E i \in 1..MaxReq : Duplicate(i)
    \/ Stray

SpecChannel == Init /\ [][NextIn(EnvChannel) \/ NextChannel]_vars

\* buy signals while the balances are being learnt; the RiskManager is
\* either called directly or by the running Trader
EnvRisk ==
    [delays |-> {ORDER_INTERVAL}, inits |-> {TRUE},
     outcomes |-> {Answer("result", "-", 50000), Answer("result", "-", 0),
                   Answer("result", "-", 40), Answer("uuid", "-", 0)},
     cmds |-> {"empty", "shutdown"},
     ticks |-> {t \in Ticks : t.code = "KRW-BTC" /\ t.spread # "wide"},
     enters |-> {TRUE}, fails |-> {TRUE}, sels |-> {SYMBOLS}]

NextRisk ==
    \/ \E in \in RiskInputs : RiskAllow(in)
    \/ risk_out.op = "none" /\ NextIn(EnvRisk)

SpecRisk == Init /\ [][NextRisk]_vars

(***************************************************************************)
(* Properties                                                              *)
(***************************************************************************)
\* the requests the step put on order_q
NewRequests ==
    IF Len(order_q') > Len(order_q) /\ SubSeq(order_q', 1, Len(order_q)) = order_q
    THEN SubSeq(order_q', Len(order_q) + 1, Len(order_q'))
    ELSE <<>>

\* C1: any two consecutive order submissions of the Trader, whether they come
\* from a tick or from rebind_symbols, are at least ORDER_INTERVAL apart
C1_OrderSpacing == order_sent.gap >= ORDER_INTERVAL

\* C2: the order bucket admits no more than CAPACITY calls in any window of
\* one second
C2_WindowWithinCapacity == Len(admitted) <= CAPACITY

\* the step is the API worker taking the request at the head of order_q
ApiTook == a_pc = "run" /\ order_q # <<>> /\ order_q' = Tail(order_q)

\* C4: for every request the API worker takes it puts exactly one response,
\* which carries the request's request_id, however the exchange call ended
C4_OneResponsePerRequest ==
    [][ApiTook =>
          /\ Len(resp_q') = Len(resp_q) + 1
          /\ SubSeq(resp_q', 1, Len(resp_q)) = resp_q
          /\ resp_q'[Len(resp_q')].request_id = Head(order_q).request_id]_vars

\* the step ends the response loop of a Trader iteration
PassedResponses == t_pc = "resp" /\ t_pc' # "resp"

\* the step put a request with this method for order uid on order_q
Requested(method, uid) ==
    \E i \in 1..Len(NewRequests) :
        NewRequests[i].method = method /\ NewRequests[i].uuid = uid

\* a request of this type for order uid is awaiting its response
Outstanding(type, uid) ==
    \E rid \in DOMAIN pending_requests :
        pending_requests[rid].type = type /\ pending_requests[rid].uuid = uid

\* the step is the Trader handling a response to a request of this type
Handled(type) ==
    /\ t_pc = "resp" /\ resp_q # <<>> /\ resp_q' = Tail(resp_q)
    /\ Head(resp_q).request_id \in DOMAIN pending_requests
    /\ pending_requests[Head(resp_q).request_id].type = type

\* C5: an OrderFill is dispatched only for an order_status response with state
\* done whose order is still pending, at most once per order id; the same step
\* emits one [FILL] notification and one db record, requests the two balances
\* and removes the pending record
C5_FillOncePerDoneOrder ==
    [][/\ \A uid \in DOMAIN fill_count' : fill_count'[uid] <= 1
       /\ fills' # <<>> =>
            /\ Handled("order_status")
            /\ Head(resp_q).result.state = "done"
            /\ LET uid == pending_requests[Head(resp_q).request_id].uuid IN
                /\ uid \in DOMAIN pending_orders
                /\ uid \notin DOMAIN pending_orders'
                /\ Len(fills') = 1
                /\ fills'[1].order_id = uid
                /\ notify_q' = <<"[FILL]">>
                /\ Len(db_q') = 1
                /\ Len(NewRequests) = 2
                /\ \A i \in 1..2 : NewRequests[i].method = "get_balance"
                /\ NewRequests[1].ticker = "KRW"
                /\ NewRequests[2].ticker = pending_orders[uid].symbol]_vars

\* a fill was dispatched while another poll or a cancel of the order was
\* awaiting its response
C5_Witness ==
    /\ fills # <<>>
    /\ \/ Outstanding("order_status", fills[1].order_id)
       \/ Outstanding("cancel_order", fills[1].order_id)

\* C6: once a pending order is PENDING_TIMEOUT_SEC old the Trader emits a
\* cancel_order request for it, the cancel response removes the pending
\* record, and no OrderFill is dispatched unless a poll answered done
C6_TimeoutCancel ==
    [][/\ PassedResponses =>
            \A uid \in DOMAIN pending_orders :
                TimedOut(pending_orders[uid]) => Requested("cancel_order", uid)
       /\ Handled("cancel_order") =>
            pending_requests[Head(resp_q).request_id].uuid
                \notin DOMAIN pending_orders'
       /\ \A uid \in DOMAIN fill_count' : uid \in done_seen']_vars

\* C7: a timed-out order gets exactly one cancel_order request, and after it
\* the record leaves pending_orders only through the cancel response
C7_OneCancel ==
    [][\A uid \in DOMAIN pending_orders :
          Outstanding("cancel_order", uid) =>
              /\ ~Requested("cancel_order", uid)
              /\ uid \notin DOMAIN pending_orders' => Handled("cancel_order")]_vars

\* C8: a paused Trader submits no order from a tick but still handles
\* responses and still polls its pending orders
C8_PausedStillPolls ==
    [][trading_paused =>
          /\ \A i \in 1..Len(NewRequests) : NewRequests[i].type # "order"
          /\ t_pc = "top" /\ t_pc' # "top" => t_pc' \in {"resp", "exit"}
          /\ PassedResponses => resp_q = <<>>
          /\ PassedResponses =>
                \A uid \in DOMAIN pending_orders :
                    StatusDue(pending_orders[uid]) => Requested("get_order", uid)]_vars

\* the step is rebind_symbols taking a new symbol set
Rebound == t_pc = "refresh" /\ symbols' # symbols

\* the new requests that ask for the balance of ticker
BalanceQueries(ticker) ==
    {i \in 1..Len(NewRequests) :
        NewRequests[i].method = "get_balance" /\ NewRequests[i].ticker = ticker}

\* every removed symbol with a balance is sold once, in full, with reason
\* symbol_removed; a removed symbol without a balance is not sold
RemovedSold ==
    \A sym \in symbols \ symbols' :
        LET sells == {i \in 1..Len(NewRequests) :
                         NewRequests[i].type = "order"
                         /\ NewRequests[i].ticker = sym}
        IN IF Get(coin_balances, sym, 0) # 0
           THEN /\ Cardinality(sells) = 1
                /\ \A i \in sells :
                      /\ NewRequests[i].side = "sell"
                      /\ NewRequests[i].volume = coin_balances[sym]
                      /\ pending_requests'[NewRequests[i].request_id].reason
                            = "symbol_removed"
           ELSE sells = {}

\* C9 as the spec states it: every added symbol triggers one balance_krw and
\* one balance_coin query
C9_BalancePairPerAdded ==
    [][Rebound =>
          /\ RemovedSold
          /\ \A sym \in symbols' \ symbols : Cardinality(BalanceQueries(sym)) = 1
          /\ Cardinality(BalanceQueries("KRW"))
                = Cardinality(symbols' \ symbols)]_vars

\* C9: on a new symbol set every removed symbol with a balance is sold once in
\* full with reason symbol_removed, one without a balance is not sold, and
\* every added symbol triggers one balance_coin query and no balance_krw query
C9_SymbolDiff ==
    [][Rebound =>
          /\ RemovedSold
          /\ \A sym \in symbols' \ symbols :
                /\ Cardinality(BalanceQueries(sym)) = 1
                /\ \A i \in BalanceQueries(sym) :
                      pending_requests'[NewRequests[i].request_id].type
                          = "balance_coin"
          /\ BalanceQueries("KRW") = {}]_vars

\* the symbol set changed to one new symbol, and of the two removed symbols
\* one had a balance and was sold and the other had none
C9_Witness ==
    /\ symbols = {"KRW-XRP"}
    /\ notify_q = <<"[AUTO SELL]", "[SYMBOLS]">>
    /\ \E rid \in DOMAIN pending_requests :
          /\ pending_requests[rid].type = "balance_coin"
          /\ pending_requests[rid].symbol = "KRW-XRP"

\* what applying response r to the request described by info does to the
\* balances and the pending orders
AppliedTo(info, r) ==
    LET others == DOMAIN pending_orders \ {info.uuid} IN
    CASE info.type = "balance_krw" ->
            /\ krw_balance' = BalanceOf(r)
            /\ UNCHANGED <<coin_balances, pending_orders>>
      [] info.type = "balance_coin" ->
            /\ coin_balances' = Put(coin_balances, info.symbol, BalanceOf(r))
            /\ UNCHANGED <<krw_balance, pending_orders>>
      [] info.type \in {"buy_order", "sell_order"} ->
            /\ UNCHANGED <<krw_balance, coin_balances>>
            /\ IF r.shape = "uuid"
               THEN /\ DOMAIN pending_orders' = DOMAIN pending_orders \cup {r.uuid}
                    /\ pending_orders'[r.uuid].symbol = info.symbol
                    /\ pending_orders'[r.uuid].volume = info.volume
                    /\ \A u \in DOMAIN pending_orders \ {r.uuid} :
                          pending_orders'[u] = pending_orders[u]
               ELSE UNCHANGED pending_orders
      [] OTHER ->
            /\ UNCHANGED <<krw_balance, coin_balances>>
            /\ DOMAIN pending_orders' \subseteq DOMAIN pending_orders
            /\ others \subseteq DOMAIN pending_orders'
            /\ \A u \in others : pending_orders'[u] = pending_orders[u]

\* the step is the Trader taking the response at the head of resp_q
TraderTook == t_pc = "resp" /\ resp_q # <<>> /\ resp_q' = Tail(resp_q)

\* C3: a response is applied only if its request_id is one the Trader emitted
\* and still holds in pending_requests, each request_id at most once and to the
\* record of that request, in whatever order the responses arrive; a response
\* with any other request_id changes nothing
C3_Correlation ==
    [][/\ \A id \in DOMAIN applied' : applied'[id] <= 1 /\ id < next_id
       /\ TraderTook =>
            LET rid == Head(resp_q).request_id IN
            IF rid \in DOMAIN pending_requests
            THEN /\ applied' = Bump(applied, {rid})
                 /\ rid \notin DOMAIN pending_requests'
                 /\ dropped' = <<>>
                 /\ AppliedTo(pending_requests[rid], Head(resp_q))
            ELSE /\ dropped' = <<rid>>
                 /\ notify_q' = <<>> /\ db_q' = <<>> /\ fills' = <<>>
                 /\ UNCHANGED <<traderVars, order_q, applied, fill_count>>]_vars

\* a response was applied ahead of the response to an older request, which is
\* still waiting, and the latest step dropped a second copy of an applied one
C3_Witness ==
    /\ dropped # <<>>
    /\ dropped[1] \in DOMAIN applied
    /\ \E i \in 1..Len(resp_q) :
          /\ resp_q[i].request_id \in DOMAIN pending_requests
          /\ resp_q[i].request_id < dropped[1]

\* C10: a second set of the shutdown flag leaves it set; once it is set no
\* worker loop (Trader, API worker, ingress with its listener and client
\* threads, merger, indicator worker) begins another iteration; and the Trader
\* requests a cancel only for a pending order that has timed out, none when
\* it leaves its loop
C10_Shutdown ==
    [][/\ stop_event => stop_event'
       /\ late' = {}
       /\ stop_event /\ t_pc = "top" => t_pc' \in {"top", "exit"}
       /\ stop_event /\ a_pc = "run" => ~ApiTook
       /\ \A i \in 1..Len(NewRequests) :
             NewRequests[i].method = "cancel_order" =>
                 /\ NewRequests[i].uuid \in DOMAIN pending_orders
                 /\ TimedOut(pending_orders[NewRequests[i].uuid])
       /\ t_pc # "exit" /\ t_pc' = "exit" => order_q' = order_q]_vars

\* the flag was set twice, every loop has ended, and an order is left pending
\* with no cancel requested for it
C10_Witness ==
    /\ flag_sets >= 2
    /\ t_pc = "exit"
    /\ a_pc = "exit"
    /\ \A w \in Workers : w_pc[w] = "exit"
    /\ \E uid \in DOMAIN pending_orders : ~Outstanding("cancel_order", uid)

\* the step is on_order_fill handing a sell fill to a strategy that is long
SellFillOnLong ==
    /\ strat_out'.op = "fill"
    /\ strat'.total_trades = strat.total_trades + 1
    /\ strat_out'.fill.side = "sell"
    /\ strat.position_type = "long"

\* C11: a sell fill dispatched to a strategy that is long adds
\* (fill.price - entry_price) * fill.volume to realized_pnl and to total_pnl,
\* counts as a winning trade iff that pnl is positive, and resets the
\* position to none
C11_SellFillPnl ==
    [][SellFillOnLong =>
          LET fill == strat_out'.fill
              pnl == (fill.price - strat.entry_price) * fill.volume
          IN /\ strat'.realized_pnl = strat.realized_pnl + pnl
             /\ strat'.total_pnl = strat.total_pnl + pnl
             /\ strat'.winning_trades
                   = strat.winning_trades + (IF pnl > 0 THEN 1 ELSE 0)
             /\ strat'.position_type = "none"]_vars

\* C12: in every state of a strategy, after any ticks, fills and resets, a
\* position of type none has entry_price 0 and volume 0
C12_NoneIsFlat ==
    strat.position_type = "none" =>
        strat.entry_price = 0 /\ strat.volume = 0

\* a sell fill has closed a long position with a profit or a loss
C12_Witness ==
    /\ strat_out.op = "fill"
    /\ strat_out.fill.side = "sell"
    /\ strat.position_type = "none"
    /\ strat.realized_pnl # 0

\* the slices of the strategy object that are closed
ClosedSlices(st) ==
    {i \in 1..Len(st.partial_positions) : st.partial_positions[i].is_closed}

\* the volume of the slices S of the strategy object
SliceVolume(st, S) == SumOver(S, [i \in S |-> st.partial_positions[i].volume])

\* the step is a call of on_tick
TickStep == strat_out'.op = "tick" /\ strat_out'.turn # strat_out.turn

\* C13: with partial close enabled the closed slices are exactly the first
\* next_partial_level_idx slices, a closed slice stays closed over a tick,
\* and a tick closes at most one slice
C13_ClosedPrefix ==
    [][(strat'.cls = "advanced" /\ strat'.partial_close_enabled) =>
          /\ ClosedSlices(strat') = 1..strat'.next_partial_level_idx
          /\ TickStep =>
                /\ ClosedSlices(strat) \subseteq ClosedSlices(strat')
                /\ Cardinality(ClosedSlices(strat'))
                      <= Cardinality(ClosedSlices(strat)) + 1]_vars

\* the latest tick closed the second slice while the third is still open
C13_Witness ==
    /\ strat.cls = "advanced" /\ strat.partial_close_enabled
    /\ strat_out.op = "tick" /\ strat_out.sig.reason = "partial"
    /\ ClosedSlices(strat) = {1, 2}
    /\ Len(strat.partial_positions) = 3

\* C14: with partial close enabled, while the position is open the closed
\* slices and remaining_volume add up to the entered volume and the open
\* slices add up to remaining_volume
C14_VolumeConserved ==
    (strat.cls = "advanced" /\ strat.partial_close_enabled
     /\ strat.position_type = "long") =>
        /\ SliceVolume(strat, ClosedSlices(strat)) + strat.remaining_volume
              = strat.volume
        /\ SliceVolume(strat, 1..Len(strat.partial_positions)
                                  \ ClosedSlices(strat))
              = strat.remaining_volume

\* 10 coins were entered, the three slices were sold as 3, 3 and 4 coins and
\* nothing remains
C14_Witness ==
    /\ strat.cls = "advanced" /\ strat.partial_close_enabled
    /\ strat.position_type = "long" /\ strat.volume = 10
    /\ ClosedSlices(strat) = {1, 2, 3}
    /\ strat.partial_positions[1].volume = 3
    /\ strat.partial_positions[2].volume = 3
    /\ strat_out.sig = Signal("sell", 4, "partial")
    /\ strat.remaining_volume = 0

\* the step is a sell fill, which closes the position of the strategy object
SellFillStep ==
    /\ strat_out'.op = "fill" /\ strat_out'.fill.side = "sell"
    /\ strat'.total_trades = strat.total_trades + 1

C16_TrailingSellIff ==
    [][(/\ TickStep
        /\ strat.cls = "advanced" /\ strat.is_initialized
        /\ strat.position_type = "long"
        /\ strat'.trailing_active
        /\ strat_out'.tick.trade_price # NoPrice) =>
          (strat_out'.sig = Signal("sell", strat.remaining_volume, "trailing")
           <=> strat_out'.tick.trade_price * 1000
                  <= strat'.trailing_stop_price)]_vars

\* entry at 1000, the stop was raised by ticks at 1006 and 1010, a slice was
\* closed on the way, and the tick at 995 returned the trailing sell
C16_Witness ==
    /\ strat.cls = "advanced" /\ strat.position_type = "long"
    /\ strat.entry_price = 1000
    /\ strat.highest_price = 1010
    /\ strat.trailing_stop_price = 999900
    /\ strat_out.tick.trade_price = 995
    /\ strat_out.sig.reason = "trailing"
    /\ strat.remaining_volume < strat.volume


\* C17: process_tick replaces a strategy's buy signal by action none with the
\* portfolio-limit reason whenever active_positions >= MAX_CONCURRENT_POSITIONS,
\* or the symbol's maximum is <= 0, or total_position_value plus that maximum
\* exceeds MAX_TOTAL_POSITION_KRW; any other buy, and every sell and none
\* signal, is returned as the strategy gave it
C17_PortfolioGate ==
    mgr_out.op = "tick" =>
        LET limited == \/ mgr_out.ap >= MAX_CONCURRENT_POSITIONS
                       \/ mgr_out.max_krw <= 0
                       \/ mgr_out.tpv + mgr_out.max_krw > MAX_TOTAL_POSITION_KRW
        IN IF mgr_out.raw.action = "buy" /\ limited
           THEN mgr_out.sig.action = "none"
                /\ mgr_out.sig.reason = "portfolio_limit"
           ELSE mgr_out.sig = mgr_out.raw

\* a buy signal refused for the total alone
C17_Witness ==
    /\ mgr_out.op = "tick"
    /\ mgr_out.raw.action = "buy"
    /\ mgr_out.ap < MAX_CONCURRENT_POSITIONS
    /\ mgr_out.max_krw > 0
    /\ mgr_out.tpv + mgr_out.max_krw > MAX_TOTAL_POSITION_KRW
    /\ mgr_out.sig = PortfolioLimit


\* the five rejections of the claim, for a symbol maximum and the inputs
Rejected(max_position_krw, krw, coin_ratio, realized_daily_pnl, ap) ==
    \/ realized_daily_pnl <= -DAILY_LOSS_LIMIT_KRW
    \/ coin_ratio >= MAX_COIN_RATIO_PCT
    \/ ap >= MAX_CONCURRENT_POSITIONS
    \/ krw < 5000
    \/ krw * 10 < max_position_krw

\* the inputs the Trader computes on a tick of sym, from the state the tick
\* leaves
RejectedOnTick(sym) ==
    Rejected(get_max_position_krw(sym), krw_balance,
             CoinRatio(TotalCoinValue(last_prices), krw_balance),
             RealizedDailyPnl, active_positions)

\* the step put a buy order of sym on order_q
BuySubmitted(sym) ==
    \E i \in 1..Len(NewRequests) :
        /\ NewRequests[i].type = "order"
        /\ NewRequests[i].side = "buy"
        /\ NewRequests[i].ticker = sym

\* C18: allow_order returns false iff the daily loss limit is reached, or the
\* coin ratio is at least MAX_COIN_RATIO, or active_positions is at least
\* MAX_CONCURRENT_POSITIONS, or krw_balance is below 5000, or below a tenth of
\* max_position_krw, and true otherwise; and the Trader submits a buy only
\* when none of the five holds for the inputs computed on that tick
C18_AllowOrder ==
    /\ [](risk_out.op = "allow" =>
            (risk_out.result <=>
                ~Rejected(risk_out.max_position_krw, risk_out.krw_balance,
                          risk_out.coin_ratio, risk_out.realized_daily_pnl,
                          risk_out.active_positions)))
    /\ [][\A sym \in Universe : BuySubmitted(sym) => ~RejectedOnTick(sym)']_vars

\* the Trader has submitted a buy while it holds coins of the symbol, the
\* ratio being below the maximum at the price of the tick
C18_Witness ==
    /\ \E i \in 1..Len(order_q) :
          order_q[i].type = "order" /\ order_q[i].side = "buy"
    /\ coin_balances["KRW-BTC"] > 0
    /\ ~RejectedOnTick("KRW-BTC")


\* the merger took the tick at the head of sym's queue
MergerTook(sym) ==
    /\ m_idx' # m_idx
    /\ SymbolOrder[m_idx] = sym
    /\ tick_queues[sym] # <<>>

\* C19: when unified_q is full and the merger has a tick to forward, the
\* oldest queued tick is discarded and the new tick is enqueued
C19_MergerDropOldest ==
    [][\A sym \in SYMBOLS :
          MergerTook(sym) /\ Len(unified_q) = UnifiedSize =>
              unified_q' = Append(Tail(unified_q), Head(tick_queues[sym]))]_vars

Increasing(seq) == \A i, j \in 1..Len(seq) : i < j => seq[i] < seq[j]

SeqsOf(q, sym) ==
    LET F[i \in 0..Len(q)] ==
            IF i = 0 THEN <<>>
            ELSE IF q[i].code = sym THEN Append(F[i - 1], q[i].seq)
            ELSE F[i - 1]
    IN F[Len(q)]

\* C20: for each symbol, the ticks put on unified_q so far, those queued in
\* unified_q and those queued for the symbol are each in the order in which
\* the ingress loop took them, ticks possibly missing in between, and each
\* tick is delivered at most once
C20_SymbolOrder ==
    \A sym \in SYMBOLS :
        /\ Increasing(delivered[sym])
        /\ Increasing(SeqsOf(unified_q, sym) \o SeqsOf(tick_queues[sym], sym))
        /\ \A i \in 1..Len(delivered[sym]) : delivered[sym][i] \in 1..recv[sym]

\* two ticks of a symbol have reached unified_q after the symbol's queue
\* overflowed, with a tick missing between them
C20_Witness ==
    \E sym \in SYMBOLS :
        /\ Len(delivered[sym]) >= 2
        /\ delivered[sym][2] > delivered[sym][1] + 1


\* the ticks put on unified_q so far
Delivered ==
    UNION { { [code |-> sym, seq |-> delivered[sym][i]] :
                i \in 1..Len(delivered[sym]) } : sym \in SYMBOLS }

Queued(q) == { q[i] : i \in 1..Len(q) }

\* C21: every tick the merger put on unified_q and that is no longer queued
\* there has been returned to the IndicatorWorker and to the Trader
C21_BothConsumers ==
    \A x \in Delivered \ Queued(unified_q) :
        \A c \in Consumers : x \in seen[c]


\* C22: a call of maybe_refresh that returns true has selected a set that
\* differs from the current one, has made it the current set, and comes at
\* least MIN_SYMBOL_STABLE_SEC after the manager's previous publication; a
\* call that returns false, a failed selection among them, leaves the set as
\* it was
C22_PublishSpacing ==
    ref_out.op = "refresh" =>
        /\ ref_out.result =>
              /\ ~ref_out.fails
              /\ ref_out.sel # ref_out.before
              /\ symbols = ref_out.sel
              /\ ref_out.prev_pub # NoTime =>
                    ref_out.at - ref_out.prev_pub >= MIN_SYMBOL_STABLE_SEC
        /\ ~ref_out.result => symbols = ref_out.before
        /\ ref_out.fails => ~ref_out.result

\* a second publication
C22_Witness ==
    /\ ref_out.op = "refresh"
    /\ ref_out.result
    /\ ref_out.prev_pub # NoTime


Published == { published[i] : i \in 1..Len(published) }

\* C23: the set the Trader treats as active is the configured one or a set
\* that was published to the ingress process: the Trader adopts no other
C23_SingleWriter == symbols \in {SYMBOLS} \cup Published

\* the Trader takes from resp_q an error response to a request it awaits
ErrorResponseStep ==
    /\ t_pc = "resp"
    /\ resp_q # <<>>
    /\ Head(resp_q).shape = "error"
    /\ Head(resp_q).request_id \in DOMAIN pending_requests
    /\ resp_q' = Tail(resp_q)

\* C24: an error response retires its request_id and leaves krw_balance,
\* coin_balances, the pending orders and every strategy as they were,
\* whatever the type of the request
C24_ErrorNoStateChange ==
    [][ErrorResponseStep =>
           /\ Head(resp_q).request_id \notin DOMAIN pending_requests'
           /\ UNCHANGED <<krw_balance, coin_balances, pending_orders,
                          strategies>>]_vars

\* the Trader takes from resp_q a response to a request it awaits
AwaitedResponseStep ==
    /\ t_pc = "resp"
    /\ resp_q # <<>>
    /\ Head(resp_q).shape # "nondict"
    /\ Head(resp_q).request_id \in DOMAIN pending_requests
    /\ resp_q' = Tail(resp_q)

\* the type of the request the head of resp_q answers
HeadType == pending_requests[Head(resp_q).request_id].type

LastPublished ==
    IF published = <<>> THEN SYMBOLS ELSE published[Len(published)]

\* nothing is under way: main has finished its broadcast, the listener waits
\* on a clear event or has ended, and every client is connected
Quiescent ==
    /\ p_pc = "idle"
    /\ \/ ls_pc = "dead"
       \/ ls_pc = "wait" /\ ~symbols_updated_ev
    /\ \A ch \in WEBSOCKET_CHANNELS :
          /\ ws_client[ch].pc = "loop"
          /\ ws_client[ch].is_connected

\* C26: once the broadcast, the listener and the client threads have come to
\* rest, every channel's connection subscribes to the set published last
C26_LastPublishedApplied ==
    Quiescent =>
        \A ch \in WEBSOCKET_CHANNELS : ws_client[ch].wm = LastPublished

\* the level the refill formula gives a bucket b at time t
Available(b, t) ==
    Min(CAPACITY * TokenUnit,
        b.tokens + ((t - b.last_refill) * REFILL_RATE * TokenUnit) \div Second)

\* C27: the bucket's level stays between 0 and CAPACITY; a consume(k) succeeds
\* iff the refilled level is at least k, then takes exactly k, and takes
\* nothing when it fails; acquire with wait takes exactly k when it returns
\* true, and returns false only when the timeout has passed, having taken
\* nothing
C27_TokenBucket ==
    /\ bucket.tokens >= 0
    /\ bucket.tokens <= CAPACITY * TokenUnit
    /\ b_out.op = "acquire" =>
         LET k == b_out.tokens * TokenUnit
             then == Available(b_out.before, b_out.at)
             last == Available(b_out.before, bucket.last_refill)
         IN /\ ~b_out.wait =>
                 /\ b_out.result <=> then >= k
                 /\ bucket.tokens = IF then >= k THEN then - k ELSE then
            /\ (b_out.wait /\ b_out.result) =>
                 /\ bucket.tokens = last - k
                 /\ then < k => b_now > b_out.at
            /\ (b_out.wait /\ ~b_out.result) =>
                 /\ b_now - b_out.at >= b_out.timeout
                 /\ bucket.tokens = last

\* acquire with wait has returned false on its timeout, after a consume that
\* failed
C27_Witness ==
    /\ b_out.op = "acquire"
    /\ b_out.wait
    /\ ~b_out.result
    /\ bucket.last_refill >= b_out.at

\* the Trader's loop leaves its tick handling
TickHandled == t_pc = "tick" /\ t_pc' # "tick"

\* C28: every iteration of the Trader's loop goes on from its tick handling
\* to the symbol-set check, also when no tick came, the tick's symbol is not
\* active, the strategy gave no signal or ORDER_INTERVAL suppressed the order
C28_RefreshEveryIteration == [][TickHandled => t_pc' = "refresh"]_vars

\* the strategies that hold a position
Open(strats) == {s \in DOMAIN strats : strats[s].position_type # "none"}

\* the strategies update_symbols(new) leaves: a prepared one for every symbol
\* of new, none for a flat symbol outside new, and the same one for a symbol
\* outside new that holds a position
Retained ==
    LET old == upd_out.before.strategies IN
    /\ \A s \in upd_out.new :
          s \in DOMAIN strategies /\ strategies[s].is_initialized
    /\ \A s \in DOMAIN old \ upd_out.new :
          IF old[s].position_type = "none" THEN s \notin DOMAIN strategies
          ELSE s \in DOMAIN strategies /\ strategies[s] = old[s]
    /\ DOMAIN strategies \subseteq DOMAIN old \cup upd_out.new

\* active_positions and total_position_value are those of the strategies
Recomputed ==
    /\ active_positions = Cardinality(Open(strategies))
    /\ total_position_value =
          SumOver(DOMAIN strategies,
                  [s \in DOMAIN strategies |->
                      strategies[s].entry_price * strategies[s].volume])

\* C29: after update_symbols(new) the strategies are the retained ones and
\* active_positions and total_position_value are recomputed from them
C29_UpdateSymbols == mgr_out.op = "update" => Retained /\ Recomputed

\* C30: a symbol is a key of the buyable dict iff its most recent evaluation
\* returned buyable, and the dict changes only in an iteration of the
\* IndicatorWorker that evaluated a symbol for the first time or with a
\* result other than its last
C30_BuyableEdge ==
    /\ [](buyable_symbols =
             {m \in DOMAIN last_eval : last_eval[m]})
    /\ [][buyable_symbols' # buyable_symbols =>
             /\ ind_out'.turn # ind_out.turn
             /\ ind_out'.evaluated
             /\ \/ ind_out'.first
                \/ last_eval[ind_out'.market] # ind_out'.buyable]_vars

\* a symbol that was buyable has been evaluated as not buyable
C30_Witness ==
    /\ ind_out.op = "tick"
    /\ ind_out.evaluated
    /\ ~ind_out.buyable
    /\ ~ind_out.first
    /\ \E m \in DOMAIN last_eval : last_eval[m] /\ m # ind_out.market

\* C31: on_tick with an orderbook tick returns action none, whatever the
\* class of the strategy
C31_DepthTickNoSignal ==
    (strat_out.op = "tick" /\ strat_out.tick.type = "orderbook")
        => strat_out.sig.action = "none"

(***************************************************************************)
(* A MACrossStrategy object alone: it is created, takes ticks, and takes   *)
(* the fill of the order its latest signal asked for.                      *)
(***************************************************************************)
MaxSeen == 10

MAPeriods == {<<3, 5>>, <<2, 3>>}
MAPrices == {10, 11, 12, 13}
GoldenPrices == <<10, 10, 10, 10, 10, 10, 10, 11, 12, 13>>

MACrossFrame ==
    UNCHANGED <<programVars, workerVars, limiterVars, strategyVars,
                managerVars, riskVars, symbolVars, tickVars, pubVars,
                listenerVars, bucketVars, indicatorVars>>

\* MACrossStrategy(symbol, config), followed by prepare()
MACreate(fast, slow) ==
    /\ mac_out.op = "none"
    /\ mac' = NewMACross(fast, slow)
    /\ mac_out' = [NoMACall EXCEPT !.op = "create"]
    /\ MACrossFrame

\* strategy.on_tick(tick) with a trade price
MATick(price) ==
    /\ mac_out.op # "none"
    /\ mac_out.seen < MaxSeen
    /\ LET tick == [code |-> "KRW-BTC", type |-> "ticker",
                    trade_price |-> price, spread |-> "-"]
           r == MAOnTick("KRW-BTC", mac, tick)
       IN /\ mac' = r.st
          /\ mac_out' =
               [op |-> "tick", sig |-> r.sig, seen |-> mac_out.seen + 1,
                hist |-> DequeAppend(mac_out.hist, price, mac.slow_period + 1),
                golden |-> IF /\ mac_out.golden = mac_out.seen
                              /\ mac_out.seen < Len(GoldenPrices)
                              /\ price = GoldenPrices[mac_out.seen + 1]
                           THEN mac_out.seen + 1 ELSE -1,
                quiet |-> mac_out.quiet /\ r.sig.action = "none"]
    /\ MACrossFrame

\* strategy.on_order_fill(fill): the order of the latest signal is filled
\* at the price of its tick
MAFill ==
    /\ mac_out.op = "tick"
    /\ mac_out.sig.action # "none"
    /\ mac.total_trades < MaxTrades
    /\ mac' = OnOrderFill(mac, [symbol |-> "KRW-BTC",
                                side |-> mac_out.sig.action,
                                price |-> mac_out.hist[Len(mac_out.hist)],
                                volume |-> 1, order_id |-> NoId])
    /\ mac_out' = [mac_out EXCEPT !.op = "fill", !.sig = NoSignal]
    /\ MACrossFrame

NextMACross ==
    \/ \E p \in MAPeriods : MACreate(p[1], p[2])
    \/ \E price \in MAPrices : MATick(price)
    \/ MAFill

SpecMACross == Init /\ [][NextMACross]_vars

\* the simple moving average of the latest k prices of h, times scale; 0
\* while h has fewer than k prices
Sma(h, k, scale) == IF Len(h) < k THEN 0 ELSE SumLast(h, k) * scale

\* the prices seen before the latest tick
Before == SubSeq(mac_out.hist, 1, Len(mac_out.hist) - 1)

\* C32: with no position the strategy emits buy on a tick iff at least
\* slow_period prices have been seen and the fast average was at most the
\* slow one before the tick and is above it after the tick; on the example
\* prices with fast 3 and slow 5 no signal comes through index 6 and buy
\* comes at index 7, where the fast average first crosses above the slow one
C32_GoldenCross ==
    /\ (mac_out.op = "tick" /\ mac.position_type = "none") =>
          (mac_out.sig.action = "buy" <=>
             /\ mac_out.seen >= mac.slow_period
             /\ Sma(Before, mac.fast_period, mac.slow_period)
                   <= Sma(Before, mac.slow_period, mac.fast_period)
             /\ Sma(mac_out.hist, mac.fast_period, mac.slow_period)
                   > Sma(mac_out.hist, mac.slow_period, mac.fast_period))
    /\ (mac_out.op = "tick" /\ mac.fast_period = 3 /\ mac.slow_period = 5) =>
          /\ mac_out.golden \in 1..7 => mac_out.quiet
          /\ mac_out.golden = 8 => mac_out.sig.action = "buy"

\* the example's tick of index 7 has been taken
C32_Witness ==
    /\ mac_out.op = "tick"
    /\ mac.fast_period = 3 /\ mac.slow_period = 5
    /\ mac_out.golden = 8
    /\ mac_out.sig.action = "buy"
    /\ mac.position_type = "none"

\* the latest call made the strategy, or is a call on the strategy the
\* manager made
ManagerMade == strat_out.symbol \in SYMBOLS

\* C33: the AdvancedScalpingStrategy the manager makes for a symbol has the
\* trailing stop and the partial close enabled as the symbol's configuration
\* says, with the configured parameter values
C33_ConfiguredFeatures ==
    ManagerMade =>
       LET config == get_strategy_config(strat_out.symbol)
       IN /\ strat.trailing_stop_enabled = config.trailing_stop_enabled
          /\ strat.partial_close_enabled = config.partial_close_enabled
          /\ TRAILING_STOP_PM = config.trailing_stop_pct
          /\ TRAILING_ACTIVATION_PM = config.trailing_activation_pct
          /\ PARTIAL_CLOSE_LEVELS = config.partial_close_levels
          /\ PARTIAL_CLOSE_RATIOS = config.partial_close_ratios

(***************************************************************************)
(* Positions: the Trader with three active symbols and an exchange that    *)
(* takes its time with orders                                              *)
(***************************************************************************)
\* the exchange accepts and fills the order at the head of order_q and the
\* Trader learns of it in its response loop: the submission response with
\* its uuid, the order_status query of the poll and the response with state
\* done, taken as one step and without the balance queries that follow
OrderFilled ==
    /\ t_pc = "resp"
    /\ resp_q = <<>>
    /\ a_pc = "run"
    /\ order_q # <<>>
    /\ Head(order_q).type = "order"
    /\ Head(order_q).request_id \in DOMAIN pending_requests
    /\ LET req == Head(order_q)
           info == pending_requests[req.request_id]
           fill == [symbol |-> info.symbol, side |-> req.side,
                    price |-> info.price, volume |-> info.volume,
                    order_id |-> req.request_id]
           sm == ProcessOrderFill(
                    [strategies |-> strategies,
                     active_positions |-> active_positions,
                     total_position_value |-> total_position_value], fill)
       IN /\ order_q' = Tail(order_q)
          /\ pending_requests' = Del(pending_requests, req.request_id)
          /\ strategies' = sm.strategies
          /\ active_positions' = sm.active_positions
          /\ total_position_value' = sm.total_position_value
          /\ fills' = <<fill>>
          /\ fill_count' = Bump(fill_count, {req.request_id})
    /\ notify_q' = <<"[FILL]">>
    /\ db_q' = <<>>
    /\ dropped' = <<>>
    /\ UNCHANGED <<workerVars, limiterVars, faults, flag_sets, now, stop_event,
                   t_pc, trading_paused, last_order_ts, krw_balance,
                   coin_balances, last_prices, risk_managers, symbols,
                   last_refresh, pending_orders, next_id, resp_q, a_pc,
                   done_seen, applied, order_sent>>
    /\ UNCHANGED objVars

\* ticks of the three symbols at one price, balances that allow a buy, and
\* a refresh that selects TOP_N_SYMBOLS symbols
EnvPositions ==
    [delays |-> Delays, inits |-> {TRUE},
     outcomes |-> {Answer("result", "-", 50000), Answer("result", "-", 0)},
     cmds |-> {"empty", "shutdown"},
     ticks |-> {t \in Ticks : t.spread # "wide" /\ t.trade_price # 1250},
     enters |-> {TRUE}, fails |-> {FALSE}, sels |-> {Universe}]

SpecPositions == Init /\ [][NextIn(EnvPositions) \/ OrderFilled]_vars

\* the managed strategies that hold a position
LongPositions == {s \in DOMAIN strategies : strategies[s].position_type = "long"}

\* C34: at most MAX_CONCURRENT_POSITIONS strategies hold a LONG position,
\* also when buy orders of several symbols were in flight together
C34_ConcurrentPositions == Cardinality(LongPositions) <= MAX_CONCURRENT_POSITIONS

\* C35: after any sequence of process_order_fill and update_symbols calls
\* active_positions is the number of managed strategies that are LONG
C35_ActivePositions == active_positions = Cardinality(LongPositions)

\* an earlier order for sym awaits its submission response, or its
\* PendingOrder has not terminated
Unresolved(sym) ==
    \/ \E id \in DOMAIN pending_requests :
          /\ pending_requests[id].type \in {"buy_order", "sell_order"}
          /\ pending_requests[id].symbol = sym
    \/ \E uid \in DOMAIN pending_orders : pending_orders[uid].symbol = sym

\* C36: the Trader submits no order for a symbol while an earlier order for
\* the same symbol is unresolved
C36_OneOrderPerSymbol ==
    [][\A i \in 1..Len(NewRequests) :
          NewRequests[i].type = "order" => ~Unresolved(NewRequests[i].ticker)]_vars

(***************************************************************************)
(* Partial close: the tick branch of the Trader with an                    *)
(* AdvancedScalpingStrategy object as the strategy of KRW-BTC              *)
(***************************************************************************)
\* orders the Trader may submit in one run of this scenario
MaxOrders == 1

\* the fills dispatched to the strategy: the entry, a sell of the whole
\* volume, and the sell of the first slice
PartialFills ==
    {f \in ObjFills : f.price = 1000 /\ f.volume = 10}
    \cup {[symbol |-> "KRW-BTC", side |-> "sell", price |-> 1006, volume |-> 3,
           order_id |-> NoId]}

\* market_q.get returned tick: the strategy's on_tick, then the Trader's
\* handling of its signal up to the end of the try block
PartialTick(tick, enter) ==
    /\ strat_out.op # "none"
    /\ strat.cls = "advanced"
    /\ LET r == AdvOnTick(strat, tick, enter)
           X0 == [out |-> [q |-> order_q, pr |-> pending_requests, id |-> next_id],
                  last_order_ts |-> last_order_ts, pc |-> "refresh"]
           X == IF r.sig.action = "error" THEN [X0 EXCEPT !.pc = "top"]
                ELSE OnSignal(X0, tick.code, tick.trade_price, r.sig)
       IN /\ Count(X.out.q, IsOrder) <= MaxOrders
          /\ strat' = r.st
          /\ strat_out' = [op |-> "tick", tick |-> tick, fill |-> NoFill,
                           sig |-> r.sig, turn |-> 1 - strat_out.turn,
                           symbol |-> strat_out.symbol]
          /\ last_prices' = IF tick.trade_price # NoPrice
                            THEN Put(last_prices, tick.code, tick.trade_price)
                            ELSE last_prices
          /\ order_q' = X.out.q
          /\ pending_requests' = X.out.pr
          /\ next_id' = X.out.id
          /\ last_order_ts' = X.last_order_ts
          /\ order_sent' = Sent(order_sent, NewOrders(order_q, X.out), now)
    /\ notify_q' = <<>>
    /\ db_q' = <<>>
    /\ fills' = <<>>
    /\ dropped' = <<>>
    /\ UNCHANGED <<workerVars, limiterVars, faults, flag_sets, now, stop_event,
                   t_pc, trading_paused, krw_balance, coin_balances,
                   risk_managers, symbols, last_refresh, pending_orders,
                   strategies, active_positions, total_position_value, resp_q,
                   a_pc, fill_count, done_seen, applied>>
    /\ UNCHANGED <<managerVars, riskVars, tickVars, symbolVars, pubVars,
                   sideVars>>

NextPartial ==
    \/ \E kw \in Keywords : StrategyCreate("advanced", kw)
    \/ \E fill \in PartialFills : StrategyFill(fill)
    \/ \E tick \in ObjTicks, enter \in BOOLEAN : PartialTick(tick, enter)
    \/ Advance(ORDER_INTERVAL)

SpecPartial == Init /\ [][NextPartial]_vars

\* the step marked a slice closed
SliceClosed == strat'.next_partial_level_idx > strat.next_partial_level_idx

SliceFillStep ==
    /\ strat_out'.op = "fill"
    /\ strat_out'.turn # strat_out.turn
    /\ strat_out'.fill.side = "sell"
    /\ strat.cls = "advanced"
    /\ strat.position_type = "long"
    /\ strat.next_partial_level_idx > 0
    /\ strat.remaining_volume > 0
    /\ strat_out'.fill.volume =
          strat.partial_positions[strat.next_partial_level_idx].volume

C39_MapsFollowSymbols ==
    /\ risk_managers = symbols
    /\ DOMAIN coin_balances = symbols
    /\ DOMAIN last_prices = symbols

(***************************************************************************)
(* Retirement of request records: both loops keep running, so each of      *)
(* their steps is taken when it stays possible                             *)
(***************************************************************************)
\* an order whose call returns something that is not a dict, besides the
\* balance queries and an order the exchange refuses with a dict
EnvRetire ==
    [delays |-> {ORDER_INTERVAL}, inits |-> {TRUE},
     outcomes |-> {Answer("result", "-", 50000), Answer("result", "-", 0),
                   Answer("plain", "-", 0), Answer("nondict", "-", 0)},
     cmds |-> {"empty", "shutdown"}, ticks |-> BtcTicks,
     enters |-> {TRUE}, fails |-> {TRUE}, sels |-> {SYMBOLS}]

FairRetire ==
    /\ WF_vars(\E ok \in EnvRetire.inits : ApiInit(ok))
    /\ WF_vars(\E outcome \in EnvRetire.outcomes : ApiHandle(outcome))
    /\ WF_vars(ApiExit)
    /\ WF_vars(TraderExit)
    /\ WF_vars(\E cmd \in EnvRetire.cmds : TraderCommand(cmd))
    /\ WF_vars(TraderResponse)
    /\ WF_vars(TraderPoll)
    /\ WF_vars(\E tick \in EnvRetire.ticks, enter \in EnvRetire.enters :
                  TraderTick(tick, enter))
    /\ WF_vars(\E fails \in EnvRetire.fails, sel \in EnvRetire.sels :
                  TraderRefresh(fails, sel))

SpecRetire == Init /\ [][NextIn(EnvRetire)]_vars /\ FairRetire

\* C40: while both processes run, every request the Trader has put on
\* order_q eventually has its record removed from pending_requests
C40_RequestsRetired ==
    \A id \in 1..MaxReq :
       (id \in DOMAIN pending_requests)
          ~> (id \notin DOMAIN pending_requests \/ stop_event)

=============================================================================
